---- MODULE Spec2Model ----
(***************************************************************************)
(* Carsu multi-tenant task boards: tenant isolation, first-page cache and  *)
(* realtime distribution.                                                  *)
(*                                                                         *)
(* Identifiers, header values, room names and cache keys are strings; a    *)
(* string is modelled as a sequence of one-character strings, so that      *)
(* trimming and template concatenation are computed, not assumed.          *)
(*                                                                         *)
(* Specifications:                                                         *)
(*   SpecGuard  TenantGuard / JwtAuthGuard over a changing membership store*)
(*   SpecPage   cursor pagination walk over a fixed table                  *)
(*   Spec       BoardsService / TodosService requests, one at a time, each *)
(*              request advancing await by await                           *)
(*   SpecRT     RealtimeGateway connections and RealtimeService emits      *)
(***************************************************************************)
EXTENDS Naturals, Sequences, FiniteSets, TLC

VARIABLES
    memberships,   \* UserTenant rows: set of [userId, tenantId, role]
    tenantRows,    \* Tenant rows: set of [id, name]
    userRows,      \* User rows: set of [id, email]
    nextSignup,    \* number of (user id, tenant id) pairs handed out by signup
    acct,          \* the last AuthService / TenantsService call and its outcome
    everMember,    \* history: every <<userId, tenantId>> that ever was a row
    guard,         \* the last guarded HTTP request and its outcome
    table,         \* SpecPage: the Board table the walk pages through
    walk,          \* SpecPage: the client following nextCursor
    boards,        \* Board rows
    todos,         \* Todo rows
    cache,         \* cache-manager content: key -> envelope
    storedBy,      \* history: key -> the parameters of the list that stored the entry
    cacheDown,     \* the cache backend currently rejects every call
    everDown,      \* history: some cache call was rejected
    nextBoard,     \* number of Board ids handed out
    nextTodo,      \* number of Todo ids handed out
    req,           \* the service call in flight (or the last one finished)
    focus,         \* the resource whose list/get/update calls this run issues
    calls,         \* number of service calls issued so far
    bg,            \* a second list request in flight beside req
    serverReady,   \* gateway.server and gateway.server.sockets are set
    conns,         \* sockets: handshake data, bound user/tenant, handler state
    rooms,         \* adapter.rooms: room name -> set of socket ids
    events,        \* history: the emitToBoard / emitToTenant calls, in order
    inbox,         \* history: per socket, the events delivered to it, in order
    web            \* the web client (App.tsx): its state, refs, socket and lists

vars == <<memberships, tenantRows, userRows, nextSignup, acct, everMember, guard, table, walk, boards, todos, cache, storedBy,
          cacheDown, everDown, nextBoard, nextTodo, req, focus, calls, bg,
          serverReady,
          conns, rooms, events, inbox, web>>

acctVars  == <<tenantRows, userRows, nextSignup, acct>>
guardVars == <<guard>>
pageVars  == <<table, walk>>
svcVars   == <<boards, todos, cache, storedBy, cacheDown, everDown, nextBoard, nextTodo, req,
               focus, calls, bg>>
rtVars    == <<serverReady, conns, rooms, events, inbox>>

----------------------------------------------------------------------------
(* Strings *)

\* JavaScript undefined / null for a string-typed value.
Undef == <<"undefined">>

\* JavaScript truthiness of a string | undefined value.
Truthy(s) == s # Undef /\ s # <<>>

RECURSIVE TrimStart(_)
TrimStart(s) ==
    IF s # <<>> /\ Head(s) = " " THEN TrimStart(Tail(s)) ELSE s

RECURSIVE TrimEnd(_)
TrimEnd(s) ==
    IF s # <<>> /\ s[Len(s)] = " " THEN TrimEnd(SubSeq(s, 1, Len(s) - 1)) ELSE s

\* String.prototype.trim
Trim(s) == TrimEnd(TrimStart(s))

\* Rank of a character in the collation used by ORDER BY id ASC.
CharRank(c) ==
    CASE c = " " -> 0
      [] c = "0" -> 1
      [] c = "1" -> 2
      [] c = "2" -> 3
      [] c = "3" -> 4
      [] c = "4" -> 5
      [] c = "5" -> 6
      [] c = "6" -> 7
      [] c = "7" -> 8
      [] c = "8" -> 9
      [] c = "9" -> 10
      [] c = ":" -> 11
      [] c = "b" -> 12
      [] c = "p" -> 13
      [] c = "q" -> 14
      [] c = "t" -> 15
      [] OTHER   -> 16

RECURSIVE StrLess(_, _)
StrLess(a, b) ==
    IF b = <<>> THEN FALSE
    ELSE IF a = <<>> THEN TRUE
    ELSE IF Head(a) = Head(b) THEN StrLess(Tail(a), Tail(b))
    ELSE CharRank(Head(a)) < CharRank(Head(b))

\* Decimal rendering of a number inside a template literal.
RECURSIVE Digits(_)
Digits(n) ==
    IF n < 10 THEN <<ToString(n)>> ELSE Digits(n \div 10) \o <<ToString(n % 10)>>

----------------------------------------------------------------------------
(* Identifiers *)

Users == {"u1", "u2"}
NoUser == ""

\* `${email}'s workspace`
LitWorkspace == <<"'", "s", " ", "w", "o", "r", "k", "s", "p", "a", "c", "e">>

TenantP == <<"p">>
TenantQ == <<"q">>
TenantIds == {TenantP, TenantQ}

\* Membership rows after two signups: each user in a default tenant.
InitMemberships ==
    {[userId |-> "u1", tenantId |-> TenantP, role |-> "member"],
     [userId |-> "u2", tenantId |-> TenantQ, role |-> "member"]}

\* The composite keys (userId, tenantId) of a set of UserTenant rows.
KeysOf(rows) == {<<m.userId, m.tenantId>> : m \in rows}
MemberKeys == KeysOf(memberships)

----------------------------------------------------------------------------
(* TenantsService *)

\* userTenant.findUnique({ where: { userId_tenantId: { userId, tenantId } } })
isUserMemberOfTenant(userId, tenantId) ==
    \E m \in memberships : m.userId = userId /\ m.tenantId = tenantId

UpsertMut(u, t) ==
    memberships \cup {[userId |-> u, tenantId |-> t, role |-> "member"]}

\* userTenant.upsert({ where: { userId_tenantId }, update: {}, create: { userId,
\* tenantId, role: 'member' } }): an existing row is kept as it is.
Upsert(u, t) ==
    IF \E m \in memberships : m.userId = u /\ m.tenantId = t
    THEN memberships
    ELSE memberships \cup {[userId |-> u, tenantId |-> t, role |-> "member"]}

\* POST /tenants/:id/members (upsert with an empty update).
AddMember(u, t) ==
    /\ memberships' = Upsert(u, t)
    /\ everMember' = everMember \cup {<<u, t>>}
    /\ UNCHANGED <<acctVars, web, guardVars, pageVars, svcVars, rtVars>>

\* A UserTenant row is deleted (user removed from the tenant).
RemoveMember(u, t) ==
    /\ <<u, t>> \in MemberKeys
    /\ memberships' = {m \in memberships : <<m.userId, m.tenantId>> # <<u, t>>}
    /\ UNCHANGED <<everMember, acctVars, web, guardVars, pageVars, svcVars, rtVars>>

----------------------------------------------------------------------------
(* TenantGuard and JwtAuthGuard *)

MsgDenied   == "Tenant access denied"
MsgMismatch == "Tenant mismatch"
MsgUnauth   == "Unauthorized"

GuardResult(outcome, msg, active) ==
    [outcome |-> outcome, msg |-> msg, activeTenantId |-> active]

\* tenantId = typeof header === 'string' ? header.trim() : undefined
HeaderTenant(header) == IF header = Undef THEN Undef ELSE Trim(header)

TenantMismatchMut(header, param) == FALSE

\* tenantId && paramsTenantId && tenantId !== paramsTenantId
TenantMismatch(header, param) ==
    /\ Truthy(HeaderTenant(header))
    /\ Truthy(param)
    /\ HeaderTenant(header) # param

GuardMemberMut(user, tenantId) == TRUE

\* await this.tenantsService.isUserMemberOfTenant(user.userId, tenantId)
GuardMember(user, tenantId) == isUserMemberOfTenant(user, tenantId)

\* TenantGuard.canActivate: the result and the activeTenantId it stashes.
canActivate(user, header, param) ==
    LET tenantId == HeaderTenant(header) IN
    IF TenantMismatch(header, param)
    THEN GuardResult("Forbidden", MsgMismatch, Undef)
    ELSE IF user = NoUser \/ ~Truthy(tenantId)
    THEN GuardResult("Forbidden", MsgDenied, Undef)
    ELSE IF ~GuardMember(user, tenantId)
    THEN GuardResult("Forbidden", MsgDenied, Undef)
    ELSE GuardResult("ok", "", tenantId)

JwtHandleRequestMut(user) == GuardResult("ok", "", Undef)

\* JwtAuthGuard.handleRequest: a missing principal is a 401.
JwtHandleRequest(user) ==
    IF user = NoUser
    THEN GuardResult("Unauthorized", MsgUnauth, Undef)
    ELSE GuardResult("ok", "", Undef)

\* @UseGuards(JwtAuthGuard, TenantGuard): the second runs only if the first passes.
RouteGuards(user, header, param) ==
    IF JwtHandleRequest(user).outcome # "ok"
    THEN JwtHandleRequest(user)
    ELSE canActivate(user, header, param)

\* Header and route-parameter values a caller can send.
HeaderInputs == {Undef, TenantP, TenantQ, <<" ", "p", " ">>, <<" ">>}
ParamInputs  == {Undef, TenantP, TenantQ}

NoGuard ==
    [via |-> "none", user |-> NoUser, header |-> Undef, param |-> Undef,
     res |-> GuardResult("none", "", Undef), store |-> {}, handed |-> Undef]

\* canActivate invoked on a request whatever ran before it.
GuardDirect(user, header, param) ==
    /\ guard' = [via |-> "direct", user |-> user, header |-> header,
                 param |-> param, res |-> canActivate(user, header, param),
                 store |-> MemberKeys, handed |-> Undef]
    /\ UNCHANGED <<memberships, everMember, acctVars, web, pageVars, svcVars, rtVars>>

\* A request to a tenant-scoped route: JwtAuthGuard, then TenantGuard.
GuardRoute(user, header, param) ==
    /\ guard' = [via |-> "route", user |-> user, header |-> header,
                 param |-> param, res |-> RouteGuards(user, header, param),
                 store |-> MemberKeys, handed |-> Undef]
    /\ UNCHANGED <<memberships, everMember, acctVars, web, pageVars, svcVars, rtVars>>

----------------------------------------------------------------------------
(* Cursor pagination (listBoards / listTodos) *)

RECURSIVE SortById(_)
\* ORDER BY id ASC over a set of rows with distinct ids.
SortById(rows) ==
    IF rows = {} THEN <<>>
    ELSE LET first == CHOOSE r \in rows :
                          \A o \in rows : o = r \/ StrLess(r.id, o.id)
         IN  <<first>> \o SortById(rows \ {first})

Prefix(s, n) == SubSeq(s, 1, IF n < Len(s) THEN n ELSE Len(s))

SkipCursorMut(s) == s

\* skip: 1 -- drop the row the cursor stands on.
SkipCursor(s) == Tail(s)

\* findMany({ where, orderBy: { id: 'asc' }, cursor?, skip?, take: take + 1 }).
\* scope: the rows matching where; ids: every id of the table (the cursor row
\* is looked up by its unique id; the result starts at the first scoped row
\* not below it).
FindMany(scope, ids, cursor, take) ==
    LET sorted == SortById(scope)
        from   == SelectSeq(sorted, LAMBDA r : ~StrLess(r.id, cursor))
        rest   == IF ~Truthy(cursor) THEN sorted
                  ELSE IF cursor \notin ids \/ from = <<>> THEN <<>>
                  ELSE SkipCursor(from)
    IN  Prefix(rest, take + 1)

Envelope(data, nextCursor) ==
    [data |-> data, nextCursor |-> nextCursor, hasMore |-> Truthy(nextCursor)]

\* query.length > take ? data[data.length - 1]?.id : undefined
NextCursor(query, take) ==
    IF Len(query) > take /\ Prefix(query, take) # <<>>
    THEN Prefix(query, take)[Len(Prefix(query, take))].id
    ELSE Undef

\* data = query.slice(0, take); meta = { nextCursor, hasMore }
PageOf(query, take) == Envelope(Prefix(query, take), NextCursor(query, take))

\* select: { id, name } / { id, title, ... }
Select(row) == [id |-> row.id, val |-> row.val]

SelectAll(s) == [i \in 1..Len(s) |-> Select(s[i])]

\* where: { tenantId }
BoardScope(rows, tenantId) == {r \in rows : r.tenantId = tenantId}

\* listBoards from the findMany on: the envelope computed from the store.
BoardsPage(rows, tenantId, cursor, limit) ==
    PageOf(SelectAll(FindMany(BoardScope(rows, tenantId),
                              {r.id : r \in rows}, cursor, limit)), limit)

\* todo where: { tenantId, boardId }
TodoScope(rows, tenantId, boardId) ==
    {r \in rows : r.tenantId = tenantId /\ r.boardId = boardId}

\* listTodos from the findMany on: the envelope computed from the store.
TodosPage(rows, tenantId, boardId, cursor, limit) ==
    PageOf(SelectAll(FindMany(TodoScope(rows, tenantId, boardId),
                              {r.id : r \in rows}, cursor, limit)), limit)

MaxPageIds == 4
MaxPageLimit == 3

BoardId(n) == <<"b">> \o Digits(n)
TodoId(n) == <<"t">> \o Digits(n)
PageBoardIds == {BoardId(n) : n \in 1..MaxPageIds}
PageTodoIds == {TodoId(n) : n \in 1..MaxPageIds}
PageParents == {BoardId(1), BoardId(2)}

\* Every Board table over PageBoardIds: each id absent or owned by one tenant.
PageBoardTables ==
    {{[id |-> i, tenantId |-> f[i], val |-> "n1"] :
          i \in {j \in PageBoardIds : f[j] # Undef}} :
        f \in [PageBoardIds -> TenantIds \cup {Undef}]}

\* Every Todo table over PageTodoIds: each id absent or a todo of one tenant
\* under one board id.
PageTodoTables ==
    {{[id |-> i, tenantId |-> f[i][1], boardId |-> f[i][2], val |-> "n1",
       description |-> "", status |-> "TODO", assignee |-> "null"] :
          i \in {j \in PageTodoIds : f[j] # <<Undef, Undef>>}} :
        f \in [PageTodoIds -> (TenantIds \X PageParents) \cup {<<Undef, Undef>>}]}

\* A walk lists the boards of a tenant (parent undefined) or the todos of a
\* tenant under one board.
PageInit ==
    \/ /\ table \in PageBoardTables
       /\ walk \in [tenant : TenantIds, parent : {Undef}, limit : 1..MaxPageLimit,
                     cursor : {Undef}, pages : {<<>>}, done : {FALSE}]
    \/ /\ table \in PageTodoTables
       /\ walk \in [tenant : TenantIds, parent : PageParents,
                     limit : 1..MaxPageLimit,
                     cursor : {Undef}, pages : {<<>>}, done : {FALSE}]

\* What the list call of the walk returns for its current cursor.
WalkPage ==
    IF walk.parent = Undef
    THEN BoardsPage(table, walk.tenant, walk.cursor, walk.limit)
    ELSE TodosPage(table, walk.tenant, walk.parent, walk.cursor, walk.limit)

\* The client requests the next page with the cursor it was handed.
PageNext ==
    /\ ~walk.done
    /\ walk' = [walk EXCEPT !.pages = Append(@, WalkPage),
                            !.cursor = WalkPage.nextCursor,
                            !.done = ~WalkPage.hasMore]
    /\ UNCHANGED <<table, memberships, everMember, acctVars, web, guardVars, svcVars, rtVars>>

----------------------------------------------------------------------------
(* Store, cache and the realtime calls of BoardsService and TodosService *)

MaxBoards == 2
MaxTodos == 2
MaxCalls == 5
DefaultLimit == 20
OtherLimit == 1

BoardIdPool == {BoardId(n) : n \in 1..MaxBoards}
TodoIdPool  == {TodoId(n) : n \in 1..MaxTodos}
\* An id no row ever has.
GhostId == <<"z">>
Names  == {"n1", "n2"}
Limits == {OtherLimit, DefaultLimit}

LitTenant == <<"t", "e", "n", "a", "n", "t", ":">>
LitBoards == <<":", "b", "o", "a", "r", "d", "s", ":", "f", "i", "r", "s", "t", ":">>
LitBoard  == <<":", "b", "o", "a", "r", "d", ":">>
LitTodos  == <<":", "t", "o", "d", "o", "s", ":", "f", "i", "r", "s", "t", ":">>

\* `tenant:${tenantId}:boards:first:${limit}`
BoardsKey(tenantId, limit) == LitTenant \o tenantId \o LitBoards \o Digits(limit)

TodosKeyMut(tenantId, boardId, limit) ==
    LitBoard \o boardId \o LitTodos \o Digits(limit)

\* `tenant:${tenantId}:board:${boardId}:todos:first:${limit}`
TodosKey(tenantId, boardId, limit) ==
    LitTenant \o tenantId \o LitBoard \o boardId \o LitTodos \o Digits(limit)

\* this.cache.del(`tenant:${tenantId}:boards:first:20`)
BoardsInvalidatedKey(tenantId) == BoardsKey(tenantId, DefaultLimit)

\* this.cache.del(`tenant:${tenantId}:board:${boardId}:todos:first:20`)
TodosInvalidatedKey(tenantId, boardId) == TodosKey(tenantId, boardId, DefaultLimit)

LitRoomBoards == <<"b", "o", "a", "r", "d", "s">>

\* RealtimeService.emitToTenant: room = `${tenantId}:boards`
TenantRoom(tenantId) == tenantId \o <<":">> \o LitRoomBoards

BoardRoomMut(tenantId, boardId) == boardId

\* RealtimeService.emitToBoard: room = `${tenantId}:${boardId}`
BoardRoom(tenantId, boardId) == tenantId \o <<":">> \o boardId

CacheHas(key) == key \in DOMAIN cache

CachePut(key, env) ==
    [k \in DOMAIN cache \cup {key} |-> IF k = key THEN env ELSE cache[k]]

CacheDrop(key) == [k \in DOMAIN cache \ {key} |-> cache[k]]

\* The tenant, resource kind, parent board and page size of a list call.
ListParams(r) == [tenant |-> r.tenant, op |-> r.op, board |-> r.board, limit |-> r.limit]

StoredPut(key, params) ==
    [k \in DOMAIN storedBy \cup {key} |-> IF k = key THEN params ELSE storedBy[k]]

StoredDrop(key) == [k \in DOMAIN storedBy \ {key} |-> storedBy[k]]

NoEnvelope == Envelope(<<>>, Undef)

Result(kind, msg, env) ==
    [kind |-> kind, msg |-> msg, data |-> env.data,
     nextCursor |-> env.nextCursor, hasMore |-> env.hasMore]

NoResult  == Result("none", "", NoEnvelope)
Forbidden == Result("Forbidden", MsgDenied, NoEnvelope)
NotFound(msg) == Result("NotFound", msg, NoEnvelope)
Ok(env)   == Result("ok", "", env)
OkRow(id, val) == Ok(Envelope(<<[id |-> id, val |-> val]>>, Undef))
\* { deleted: true }
OkDeleted == Ok(NoEnvelope)

IsBoardOp(op) == op \in {"listBoards", "createBoard", "getBoard", "updateBoard", "deleteBoard"}
IsMutation(op) == op \in {"createBoard", "updateBoard", "deleteBoard",
                          "createTodo", "updateTodo", "deleteTodo"}

\* assigneeUserId NULL in a Todo row.
NullAssignee == "null"
\* assigneeUserId absent from the arguments or the patch (undefined).
NoAssignee == ""

\* A key absent from a patch (undefined).
Absent == "(absent)"

\* The keys of an updateTodo patch besides title and assigneeUserId.
NoPatch == [description |-> Absent, status |-> Absent, tenantId |-> Undef,
            boardId |-> Undef]

Idle ==
    [op |-> "none", user |-> NoUser, tenant |-> Undef, id |-> Undef,
     board |-> Undef, val |-> "", assignee |-> NoAssignee, patch |-> NoPatch,
     limit |-> DefaultLimit, cursor |-> Undef,
     pc |-> "idle", found |-> Undef, resp |-> NoEnvelope, result |-> NoResult,
     trace |-> <<>>]

Step(kind, target, event, id, board) ==
    [step |-> kind, target |-> target, event |-> event, id |-> id, board |-> board]

InFlight == req.pc \notin {"idle", "done"}

Finish(r, result) == [r EXCEPT !.pc = "done", !.result = result]

\* A service method is called; its first await is ensureMembership.
Call(op, user, tenant, id, board, val, limit, cursor) ==
    /\ ~InFlight
    /\ calls < MaxCalls
    /\ calls' = calls + 1
    /\ req' = [Idle EXCEPT !.op = op, !.user = user, !.tenant = tenant, !.id = id,
                           !.board = board, !.val = val, !.limit = limit,
                           !.cursor = cursor, !.pc = "member"]
    /\ UNCHANGED <<boards, todos, cache, storedBy, cacheDown, everDown, nextBoard, nextTodo, focus, bg>>
    /\ UNCHANGED <<memberships, everMember, acctVars, web, guardVars, pageVars, rtVars>>

BoardIdInputs == BoardIdPool \cup {GhostId}
TodoIdInputs  == TodoIdPool \cup {GhostId}

\* Cursors a client sends: none, or an id it has seen.
BoardCursors == {Undef, BoardId(1)}
TodoCursors  == {Undef, TodoId(1)}

CallListBoards ==
    /\ focus = "boards"
    /\ \E u \in Users, t \in TenantIds, l \in Limits, c \in BoardCursors :
        Call("listBoards", u, t, Undef, Undef, "", l, c)

CallCreateBoard ==
    /\ nextBoard < MaxBoards
    /\ \E u \in Users, t \in TenantIds, n \in Names :
        /\ focus = "todos" => n = "n1"
        /\ Call("createBoard", u, t, Undef, Undef, n, DefaultLimit, Undef)

CallGetBoard ==
    /\ focus = "boards"
    /\ \E u \in Users, t \in TenantIds, b \in BoardIdInputs :
        Call("getBoard", u, t, b, Undef, "", DefaultLimit, Undef)

CallUpdateBoard ==
    /\ focus = "boards"
    /\ \E u \in Users, t \in TenantIds, b \in BoardIdInputs, n \in Names :
        Call("updateBoard", u, t, b, Undef, n, DefaultLimit, Undef)

CallDeleteBoard ==
    \E u \in Users, t \in TenantIds, b \in BoardIdInputs :
        Call("deleteBoard", u, t, b, Undef, "", DefaultLimit, Undef)

CallListTodos ==
    /\ focus = "todos"
    /\ \E u \in Users, t \in TenantIds, b \in BoardIdPool, l \in Limits, c \in TodoCursors :
        Call("listTodos", u, t, Undef, b, "", l, c)

CallCreateTodo ==
    /\ focus = "todos"
    /\ nextTodo < MaxTodos
    /\ \E u \in Users, t \in TenantIds, b \in BoardIdInputs, n \in Names :
        Call("createTodo", u, t, Undef, b, n, DefaultLimit, Undef)

CallGetTodo ==
    /\ focus = "todos"
    /\ \E u \in Users, t \in TenantIds, i \in TodoIdInputs :
        Call("getTodo", u, t, i, Undef, "", DefaultLimit, Undef)

CallUpdateTodo ==
    /\ focus = "todos"
    /\ \E u \in Users, t \in TenantIds, i \in TodoIdInputs, n \in Names :
        Call("updateTodo", u, t, i, Undef, n, DefaultLimit, Undef)

CallDeleteTodo ==
    /\ focus = "todos"
    /\ \E u \in Users, t \in TenantIds, i \in TodoIdInputs :
        Call("deleteTodo", u, t, i, Undef, "", DefaultLimit, Undef)

----------------------------------------------------------------------------
(* The awaits of a service method, one action each *)

EnsureMembershipMut(userId, tenantId) == TRUE

\* ensureMembership: isUserMemberOfTenant or ForbiddenException.
EnsureMembership(userId, tenantId) == isUserMemberOfTenant(userId, tenantId)

ScopedBoardsMut(id, tenantId) == {b \in boards : b.id = id}

\* board where: { id: boardId, tenantId }
ScopedBoards(id, tenantId) == {b \in boards : b.id = id /\ b.tenantId = tenantId}

ScopedTodosMut(id, tenantId) == {t \in todos : t.id = id}
ScopedTodosByIdMut(id, tenantId) == {t \in todos : t.id = id}

\* todo where: { id: todoId, tenantId }
ScopedTodos(id, tenantId) == {t \in todos : t.id = id /\ t.tenantId = tenantId}

MsgBoard == "Board not found"
MsgTodo  == "Todo not found"

\* The cache key of a cursorless list call.
ListKey(r) ==
    IF r.op = "listBoards" THEN BoardsKey(r.tenant, r.limit)
    ELSE TodosKey(r.tenant, r.board, r.limit)

\* The board a todo mutation invalidates and emits for.
BoardOf(r) == IF r.op = "createTodo" THEN r.board ELSE r.found

InvalidatedKey(r) ==
    IF IsBoardOp(r.op) THEN BoardsInvalidatedKey(r.tenant)
    ELSE TodosInvalidatedKey(r.tenant, BoardOf(r))

EventName(op) ==
    CASE op = "createBoard" -> "board.created"
      [] op = "updateBoard" -> "board.updated"
      [] op = "deleteBoard" -> "board.deleted"
      [] op = "createTodo"  -> "todo.created"
      [] op = "updateTodo"  -> "todo.updated"
      [] op = "deleteTodo"  -> "todo.deleted"
      [] OTHER -> ""

AfterMemberMut(r) ==
    CASE r.pc = "member2" -> "find2"
      [] r.op \in {"listBoards", "listTodos"} -> "cget"
      [] r.op = "createBoard" -> "write"
      [] OTHER -> "find"

\* What follows ensureMembership: for a list, const cacheKey = cursor ?
\* undefined : `...`; if (cacheKey) { cache.get } else straight to findMany.
AfterMember(r) ==
    CASE r.pc = "member2" -> "find2"
      [] r.op \in {"listBoards", "listTodos"} ->
            IF Truthy(r.cursor) THEN "query" ELSE "cget"
      [] r.op = "createBoard" -> "write"
      [] OTHER -> "find"

\* await this.ensureMembership(userId, tenantId)
StepMember ==
    /\ req.pc \in {"member", "member2"}
    /\ req' = IF EnsureMembership(req.user, req.tenant)
              THEN [req EXCEPT !.pc = AfterMember(req)]
              ELSE Finish(req, Forbidden)
    /\ UNCHANGED <<boards, todos, cache, storedBy, cacheDown, everDown, nextBoard, nextTodo, focus, calls, bg>>
    /\ UNCHANGED <<memberships, everMember, acctVars, web, guardVars, pageVars, rtVars>>

FoundBoardMut(r) == boards

\* The rows the check of the target board returns.
FoundBoard(r) ==
    ScopedBoards(IF r.op = "createTodo" THEN r.board ELSE r.id, r.tenant)

\* await this.prisma.<model>.findFirst({ where: { id, tenantId } })
StepFind ==
    /\ req.pc \in {"find", "find2"}
    /\ req' =
         IF req.op \in {"getBoard", "updateBoard", "deleteBoard", "createTodo"}
         THEN IF FoundBoard(req) = {} THEN Finish(req, NotFound(MsgBoard))
              ELSE IF req.op = "getBoard"
              THEN LET b == CHOOSE b \in FoundBoard(req) : TRUE
                   IN  Finish(req, OkRow(b.id, b.val))
              ELSE [req EXCEPT !.pc = "write"]
         ELSE IF ScopedTodos(req.id, req.tenant) = {}
              THEN Finish(req, NotFound(MsgTodo))
              ELSE LET t == CHOOSE t \in ScopedTodos(req.id, req.tenant) : TRUE IN
                   IF req.op = "getTodo" \/ req.pc = "find2"
                   THEN Finish(req, OkRow(t.id, t.val))
                   ELSE [req EXCEPT !.pc = "write", !.found = t.boardId]
    /\ UNCHANGED <<boards, todos, cache, storedBy, cacheDown, everDown, nextBoard, nextTodo, focus, calls, bg>>
    /\ UNCHANGED <<memberships, everMember, acctVars, web, guardVars, pageVars, rtVars>>

AfterWriteMut(r) == "emit"

\* What follows the store write: the cache invalidation.
AfterWrite(r) == "del"

CountIsZeroMut(rows) == FALSE

\* if (del.count === 0) throw new NotFoundException(...)
CountIsZero(rows) == Cardinality(rows) = 0

Wrote(r, id) ==
    [r EXCEPT !.pc = AfterWrite(r), !.id = id,
              !.trace = Append(@, Step("write", Undef, "", id, Undef))]

\* data: { ..., assigneeUserId: assigneeUserId ?? null }
CreatedAssignee(r) == IF r.assignee = NoAssignee THEN NullAssignee ELSE r.assignee

\* updateMany({ where, data: patch }): the columns named in the patch are set.
Patched(t, r) ==
    [t EXCEPT !.val = r.val,
              !.assignee = IF r.assignee = NoAssignee THEN @ ELSE r.assignee,
              !.description = IF r.patch.description = Absent THEN @
                              ELSE r.patch.description,
              !.status = IF r.patch.status = Absent THEN @ ELSE r.patch.status,
              !.tenantId = IF r.patch.tenantId = Undef THEN @ ELSE r.patch.tenantId,
              !.boardId = IF r.patch.boardId = Undef THEN @ ELSE r.patch.boardId]

\* await this.prisma.<model>.create / updateMany / deleteMany
StepWrite ==
    /\ req.pc = "write"
    /\ CASE req.op = "createBoard" ->
              /\ boards' = boards \cup {[id |-> BoardId(nextBoard + 1),
                                         tenantId |-> req.tenant, val |-> req.val]}
              /\ nextBoard' = nextBoard + 1
              /\ req' = Wrote(req, BoardId(nextBoard + 1))
              /\ UNCHANGED <<todos, nextTodo>>
         [] req.op = "updateBoard" ->
              /\ boards' = (boards \ ScopedBoards(req.id, req.tenant)) \cup
                           {[b EXCEPT !.val = req.val] : b \in ScopedBoards(req.id, req.tenant)}
              /\ req' = IF ScopedBoards(req.id, req.tenant) = {}
                        THEN Finish(req, NotFound(MsgBoard)) ELSE Wrote(req, req.id)
              /\ UNCHANGED <<todos, nextBoard, nextTodo>>
         [] req.op = "deleteBoard" ->
              /\ boards' = boards \ ScopedBoards(req.id, req.tenant)
              \* Todo_boardId_fkey ON DELETE CASCADE
              /\ todos' = {t \in todos :
                             t.boardId \notin {b.id : b \in ScopedBoards(req.id, req.tenant)}}
              /\ req' = IF CountIsZero(ScopedBoards(req.id, req.tenant))
                        THEN Finish(req, NotFound(MsgBoard)) ELSE Wrote(req, req.id)
              /\ UNCHANGED <<nextBoard, nextTodo>>
         [] req.op = "createTodo" ->
              \* Todo_boardId_fkey: the insert fails if the board row is gone
              IF \E b \in boards : b.id = req.board
              THEN /\ todos' = todos \cup {[id |-> TodoId(nextTodo + 1),
                                            tenantId |-> req.tenant,
                                            boardId |-> req.board, val |-> req.val,
                                            description |-> "", status |-> "TODO",
                                            assignee |-> CreatedAssignee(req)]}
                   /\ nextTodo' = nextTodo + 1
                   /\ req' = Wrote(req, TodoId(nextTodo + 1))
                   /\ UNCHANGED <<boards, nextBoard>>
              ELSE /\ req' = Finish(req, Result("Error", "Foreign key constraint failed",
                                                NoEnvelope))
                   /\ UNCHANGED <<boards, todos, nextBoard, nextTodo>>
         [] req.op = "updateTodo" ->
              /\ todos' = (todos \ ScopedTodos(req.id, req.tenant)) \cup
                          {Patched(t, req) : t \in ScopedTodos(req.id, req.tenant)}
              /\ req' = IF ScopedTodos(req.id, req.tenant) = {}
                        THEN Finish(req, NotFound(MsgTodo)) ELSE Wrote(req, req.id)
              /\ UNCHANGED <<boards, nextBoard, nextTodo>>
         [] req.op = "deleteTodo" ->
              /\ todos' = todos \ ScopedTodos(req.id, req.tenant)
              /\ req' = IF CountIsZero(ScopedTodos(req.id, req.tenant))
                        THEN Finish(req, NotFound(MsgTodo)) ELSE Wrote(req, req.id)
              /\ UNCHANGED <<boards, nextBoard, nextTodo>>
    /\ UNCHANGED <<cache, storedBy, cacheDown, everDown, focus, calls, bg>>
    /\ UNCHANGED <<memberships, everMember, acctVars, web, guardVars, pageVars, rtVars>>

CacheCatchMut(r) == Finish(r, Result("Error", "cache", NoEnvelope))

\* catch {} after a cache call: the rejection is dropped and the method goes on.
CacheCatch(r) == r

\* How the cache call of the current step ends (recorded in the trace).
CacheOutcome == IF cacheDown THEN "failed" ELSE ""

\* try { await this.cache.del(key) } catch {}
StepInvalidate ==
    /\ req.pc = "del"
    /\ cache' = IF cacheDown THEN cache ELSE CacheDrop(InvalidatedKey(req))
    /\ storedBy' = IF cacheDown THEN storedBy ELSE StoredDrop(InvalidatedKey(req))
    /\ everDown' = (everDown \/ cacheDown)
    /\ LET next == [req EXCEPT !.pc = "emit",
                                !.trace = Append(@, Step("del", InvalidatedKey(req),
                                                         CacheOutcome, Undef, Undef))]
       IN  req' = IF cacheDown THEN CacheCatch(next) ELSE next
    /\ UNCHANGED <<boards, todos, cacheDown, nextBoard, nextTodo, focus, calls, bg>>
    /\ UNCHANGED <<memberships, everMember, acctVars, web, guardVars, pageVars, rtVars>>

EmitRoom(r) ==
    IF IsBoardOp(r.op) THEN TenantRoom(r.tenant) ELSE BoardRoom(r.tenant, BoardOf(r))

Returned(r) ==
    CASE r.op \in {"createBoard", "updateBoard", "createTodo"} -> OkRow(r.id, r.val)
      [] OTHER -> OkDeleted

\* try { this.realtime.emitTo...(...) } catch {}; then the return statement
\* (updateTodo returns this.getTodo(...), which starts with ensureMembership).
StepEmit ==
    /\ req.pc = "emit"
    /\ LET emitted == [req EXCEPT !.trace =
                          Append(@, Step("emit", EmitRoom(req), EventName(req.op), req.id,
                                         IF IsBoardOp(req.op) THEN Undef ELSE BoardOf(req)))]
       IN  req' = IF req.op = "updateTodo"
                  THEN [emitted EXCEPT !.pc = "member2"]
                  ELSE Finish(emitted, Returned(req))
    /\ UNCHANGED <<boards, todos, cache, storedBy, cacheDown, everDown, nextBoard, nextTodo, focus, calls, bg>>
    /\ UNCHANGED <<memberships, everMember, acctVars, web, guardVars, pageVars, rtVars>>

EmitCatchMut(r) == Finish(r, Result("Error", "emit", NoEnvelope))

\* catch (err) { this.logger.error(...) } after an emit: the method goes on.
EmitCatch(r) == r

\* The emit call throws; the catch block logs, then the return statement.
StepEmitThrows ==
    /\ req.pc = "emit"
    /\ LET threw == [req EXCEPT !.trace =
                        Append(@, Step("emit", EmitRoom(req), "threw", req.id,
                                       IF IsBoardOp(req.op) THEN Undef ELSE BoardOf(req)))]
       IN  req' = EmitCatch(IF req.op = "updateTodo"
                            THEN [threw EXCEPT !.pc = "member2"]
                            ELSE Finish(threw, Returned(req)))
    /\ UNCHANGED <<boards, todos, cache, storedBy, cacheDown, everDown, nextBoard, nextTodo, focus, calls, bg>>
    /\ UNCHANGED <<memberships, everMember, acctVars, web, guardVars, pageVars, rtVars>>

\* try { const cached = await this.cache.get(cacheKey); if (cached) return cached } catch {}
StepCacheGet ==
    /\ req.pc = "cget"
    /\ everDown' = (everDown \/ cacheDown)
    /\ LET read == [req EXCEPT !.trace = Append(@, Step("cget", ListKey(req),
                                                         CacheOutcome, Undef, Undef))]
       IN  req' = IF cacheDown THEN CacheCatch([read EXCEPT !.pc = "query"])
                  ELSE IF CacheHas(ListKey(req))
                  THEN Finish(read, Ok(cache[ListKey(req)]))
                  ELSE [read EXCEPT !.pc = "query"]
    /\ UNCHANGED <<boards, todos, cache, storedBy, cacheDown, nextBoard, nextTodo, focus, calls, bg>>
    /\ UNCHANGED <<memberships, everMember, acctVars, web, guardVars, pageVars, rtVars>>

\* await this.prisma.<model>.findMany(...); slice; build the envelope
StepQuery ==
    /\ req.pc = "query"
    /\ LET env == IF req.op = "listBoards"
                  THEN BoardsPage(boards, req.tenant, req.cursor, req.limit)
                  ELSE TodosPage(todos, req.tenant, req.board, req.cursor, req.limit)
       IN  req' = IF Truthy(req.cursor) THEN Finish(req, Ok(env))
                  ELSE [req EXCEPT !.pc = "cset", !.resp = env]
    /\ UNCHANGED <<boards, todos, cache, storedBy, cacheDown, everDown, nextBoard, nextTodo, focus, calls, bg>>
    /\ UNCHANGED <<memberships, everMember, acctVars, web, guardVars, pageVars, rtVars>>

\* try { await this.cache.set(cacheKey, response, 60_000) } catch {}; return response
StepCacheSet ==
    /\ req.pc = "cset"
    /\ cache' = IF cacheDown THEN cache ELSE CachePut(ListKey(req), req.resp)
    /\ storedBy' = IF cacheDown THEN storedBy ELSE StoredPut(ListKey(req), ListParams(req))
    /\ everDown' = (everDown \/ cacheDown)
    /\ LET wrote == [req EXCEPT !.trace = Append(@, Step("cset", ListKey(req),
                                                          CacheOutcome, Undef, Undef))]
       IN  req' = IF cacheDown THEN CacheCatch(Finish(wrote, Ok(req.resp)))
                  ELSE Finish(wrote, Ok(req.resp))
    /\ UNCHANGED <<boards, todos, cacheDown, nextBoard, nextTodo, focus, calls, bg>>
    /\ UNCHANGED <<memberships, everMember, acctVars, web, guardVars, pageVars, rtVars>>

\* The 60 s TTL of an entry elapses.
CacheExpire ==
    /\ \E k \in DOMAIN cache : cache' = CacheDrop(k) /\ storedBy' = StoredDrop(k)
    /\ UNCHANGED <<boards, todos, cacheDown, everDown, nextBoard, nextTodo, req, focus, calls, bg>>
    /\ UNCHANGED <<memberships, everMember, acctVars, web, guardVars, pageVars, rtVars>>

\* The cache backend becomes unreachable / reachable again.  A step of
\* SpecFail only; the runs of Spec keep the backend reachable.
CacheFlip ==
    /\ cacheDown' = ~cacheDown
    /\ UNCHANGED <<boards, todos, cache, storedBy, everDown, nextBoard, nextTodo, req, focus, calls, bg>>
    /\ UNCHANGED <<memberships, everMember, acctVars, web, guardVars, pageVars, rtVars>>

----------------------------------------------------------------------------
(* A second list request, in flight while req advances: the same awaits of *)
(* listBoards / listTodos, taken on bg                                      *)

\* The two clients of a race are sessions of one member of one tenant.
RaceUser == "u1"
RaceTenant == TenantP

BgInFlight == bg.pc \notin {"idle", "done"}

\* listBoards or listTodos is called for a first page of the default size.
BgCall ==
    /\ ~BgInFlight
    /\ bg' = IF focus = "boards"
             THEN [Idle EXCEPT !.op = "listBoards", !.user = RaceUser,
                               !.tenant = RaceTenant, !.pc = "member"]
             ELSE [Idle EXCEPT !.op = "listTodos", !.user = RaceUser,
                               !.tenant = RaceTenant, !.board = BoardId(1),
                               !.pc = "member"]
    /\ UNCHANGED <<boards, todos, cache, storedBy, cacheDown, everDown, nextBoard, nextTodo, req,
                   focus, calls>>
    /\ UNCHANGED <<memberships, everMember, acctVars, web, guardVars, pageVars, rtVars>>

\* await this.ensureMembership(userId, tenantId)
BgMember ==
    /\ bg.pc = "member"
    /\ bg' = IF EnsureMembership(bg.user, bg.tenant)
             THEN [bg EXCEPT !.pc = AfterMember(bg)]
             ELSE Finish(bg, Forbidden)
    /\ UNCHANGED <<boards, todos, cache, storedBy, cacheDown, everDown, nextBoard, nextTodo, req,
                   focus, calls>>
    /\ UNCHANGED <<memberships, everMember, acctVars, web, guardVars, pageVars, rtVars>>

\* try { const cached = await this.cache.get(cacheKey); if (cached) return cached } catch {}
BgCacheGet ==
    /\ bg.pc = "cget"
    /\ everDown' = (everDown \/ cacheDown)
    /\ bg' = IF ~cacheDown /\ CacheHas(ListKey(bg))
             THEN Finish(bg, Ok(cache[ListKey(bg)]))
             ELSE [bg EXCEPT !.pc = "query"]
    /\ UNCHANGED <<boards, todos, cache, storedBy, cacheDown, nextBoard, nextTodo, req, focus, calls>>
    /\ UNCHANGED <<memberships, everMember, acctVars, web, guardVars, pageVars, rtVars>>

\* await this.prisma.<model>.findMany(...); slice; build the envelope
BgQuery ==
    /\ bg.pc = "query"
    /\ bg' = [bg EXCEPT !.pc = "cset",
                        !.resp = IF bg.op = "listBoards"
                                 THEN BoardsPage(boards, bg.tenant, bg.cursor, bg.limit)
                                 ELSE TodosPage(todos, bg.tenant, bg.board, bg.cursor,
                                                bg.limit)]
    /\ UNCHANGED <<boards, todos, cache, storedBy, cacheDown, everDown, nextBoard, nextTodo, req,
                   focus, calls>>
    /\ UNCHANGED <<memberships, everMember, acctVars, web, guardVars, pageVars, rtVars>>

\* try { await this.cache.set(cacheKey, response, 60_000) } catch {}; return response
BgCacheSet ==
    /\ bg.pc = "cset"
    /\ cache' = IF cacheDown THEN cache ELSE CachePut(ListKey(bg), bg.resp)
    /\ storedBy' = IF cacheDown THEN storedBy ELSE StoredPut(ListKey(bg), ListParams(bg))
    /\ everDown' = (everDown \/ cacheDown)
    /\ bg' = Finish(bg, Ok(bg.resp))
    /\ UNCHANGED <<boards, todos, cacheDown, nextBoard, nextTodo, req, focus, calls>>
    /\ UNCHANGED <<memberships, everMember, acctVars, web, guardVars, pageVars, rtVars>>

----------------------------------------------------------------------------
(* A second delete request, in flight while req advances: the awaits of     *)
(* deleteBoard / deleteTodo, taken on bg                                     *)

\* deleteBoard or deleteTodo is called by the second client.
BgCallDelete ==
    /\ ~BgInFlight
    /\ bg' = IF focus = "boards"
             THEN [Idle EXCEPT !.op = "deleteBoard", !.user = RaceUser,
                               !.tenant = RaceTenant, !.id = BoardId(1), !.pc = "member"]
             ELSE [Idle EXCEPT !.op = "deleteTodo", !.user = RaceUser,
                               !.tenant = RaceTenant, !.id = TodoId(1), !.pc = "member"]
    /\ UNCHANGED <<boards, todos, cache, storedBy, cacheDown, everDown, nextBoard, nextTodo, req,
                   focus, calls>>
    /\ UNCHANGED <<memberships, everMember, acctVars, web, guardVars, pageVars, rtVars>>

\* await this.prisma.<model>.findFirst({ where: { id, tenantId } })
BgFind ==
    /\ bg.pc = "find"
    /\ bg' = IF bg.op = "deleteBoard"
             THEN IF ScopedBoards(bg.id, bg.tenant) = {}
                  THEN Finish(bg, NotFound(MsgBoard))
                  ELSE [bg EXCEPT !.pc = "write"]
             ELSE IF ScopedTodos(bg.id, bg.tenant) = {}
                  THEN Finish(bg, NotFound(MsgTodo))
                  ELSE [bg EXCEPT !.pc = "write",
                           !.found = (CHOOSE t \in ScopedTodos(bg.id, bg.tenant) : TRUE).boardId]
    /\ UNCHANGED <<boards, todos, cache, storedBy, cacheDown, everDown, nextBoard, nextTodo, req,
                   focus, calls>>
    /\ UNCHANGED <<memberships, everMember, acctVars, web, guardVars, pageVars, rtVars>>

\* await this.prisma.<model>.deleteMany({ where: { id, tenantId } })
BgWrite ==
    /\ bg.pc = "write"
    /\ IF bg.op = "deleteBoard"
       THEN /\ boards' = boards \ ScopedBoards(bg.id, bg.tenant)
            /\ todos' = {t \in todos :
                           t.boardId \notin {b.id : b \in ScopedBoards(bg.id, bg.tenant)}}
            /\ bg' = IF CountIsZero(ScopedBoards(bg.id, bg.tenant))
                     THEN Finish(bg, NotFound(MsgBoard)) ELSE Wrote(bg, bg.id)
       ELSE /\ todos' = todos \ ScopedTodos(bg.id, bg.tenant)
            /\ boards' = boards
            /\ bg' = IF CountIsZero(ScopedTodos(bg.id, bg.tenant))
                     THEN Finish(bg, NotFound(MsgTodo)) ELSE Wrote(bg, bg.id)
    /\ UNCHANGED <<cache, storedBy, cacheDown, everDown, nextBoard, nextTodo, req, focus, calls>>
    /\ UNCHANGED <<memberships, everMember, acctVars, web, guardVars, pageVars, rtVars>>

\* try { await this.cache.del(key) } catch {}
BgInvalidate ==
    /\ bg.pc = "del"
    /\ cache' = IF cacheDown THEN cache ELSE CacheDrop(InvalidatedKey(bg))
    /\ storedBy' = IF cacheDown THEN storedBy ELSE StoredDrop(InvalidatedKey(bg))
    /\ everDown' = (everDown \/ cacheDown)
    /\ bg' = [bg EXCEPT !.pc = "emit",
                        !.trace = Append(@, Step("del", InvalidatedKey(bg), CacheOutcome,
                                                 Undef, Undef))]
    /\ UNCHANGED <<boards, todos, cacheDown, nextBoard, nextTodo, req, focus, calls>>
    /\ UNCHANGED <<memberships, everMember, acctVars, web, guardVars, pageVars, rtVars>>

\* try { this.realtime.emitTo...(...) } catch {}; return { deleted: true }
BgEmit ==
    /\ bg.pc = "emit"
    /\ bg' = Finish([bg EXCEPT !.trace =
                        Append(@, Step("emit", EmitRoom(bg), EventName(bg.op), bg.id,
                                       IF IsBoardOp(bg.op) THEN Undef ELSE BoardOf(bg)))],
                    Returned(bg))
    /\ UNCHANGED <<boards, todos, cache, storedBy, cacheDown, everDown, nextBoard, nextTodo, req,
                   focus, calls>>
    /\ UNCHANGED <<memberships, everMember, acctVars, web, guardVars, pageVars, rtVars>>

----------------------------------------------------------------------------
(* RealtimeGateway (socket handshake, join_board, leave_board) and          *)
(* RealtimeService (emitToBoard, emitToTenant) over the adapter's rooms     *)

MaxConns == 2
MaxSockets == 3
MaxEvents == 2

\* Socket ids.  The sockets of RtConns connect in SpecRT, all of them in
\* SpecEmit.
Conns == 1..MaxSockets
RtConns == 1..MaxConns

\* Handshake token: missing, failing verification, or valid with sub = a user.
NoToken  == ""
BadToken == "bad"
TokenInputs == {NoToken, BadToken} \cup Users
\* Handshake auth.tenantId || headers['x-tenant-id'].
TenantInputs == {Undef, TenantP, TenantQ, <<" ", "p">>}
\* data.boardId of join_board / leave_board.
JoinInputs == {Undef, <<>>, <<" ">>, BoardId(1), <<" ">> \o BoardId(1), LitRoomBoards}
\* boardId arguments of emitToBoard.
EmitBoards == {BoardId(1)}

\* A socket's record: the handshake values while it is held, what is bound on
\* the client object, and for the properties whether a membership row existed
\* at the bind and which failure closed a refused handshake.
NoConn ==
    [pc |-> "none", live |-> FALSE, token |-> NoToken, rawTenant |-> Undef,
     userId |-> NoUser, tenantId |-> Undef, member |-> FALSE, refusal |-> "",
     asked |-> {}]

\* catch (e) { ...; client.disconnect() }: the socket is closed with nothing
\* bound on it.
Unauthorized(why) == [NoConn EXCEPT !.pc = "refused", !.refusal = why]

TokenVerifiesMut(token) == TRUE

\* await this.jwt.verifyAsync(bearer) resolves.
TokenVerifies(token) == token # BadToken

InRoom(room) == IF room \in DOMAIN rooms THEN rooms[room] ELSE {}

\* adapter.addAll(id, {room})
RoomsAdd(c, room) ==
    [k \in DOMAIN rooms \cup {room} |-> IF k = room THEN InRoom(room) \cup {c} ELSE rooms[k]]

\* adapter.del(id, room): an emptied room is removed from the map
RoomsDel(c, room) ==
    [k \in {j \in DOMAIN rooms : rooms[j] \ (IF j = room THEN {c} ELSE {}) # {}} |->
        rooms[k] \ (IF k = room THEN {c} ELSE {})]

RoomsDelAllMut(c) == rooms

\* adapter.delAll(id)
RoomsDelAll(c) ==
    [k \in {j \in DOMAIN rooms : rooms[j] \ {c} # {}} |-> rooms[k] \ {c}]

\* The rooms socket c is in.
RoomsOf(c) == {k \in DOMAIN rooms : c \in rooms[k]}

\* afterInit: the Socket.IO server is up.
AfterInit ==
    /\ ~serverReady
    /\ serverReady' = TRUE
    /\ UNCHANGED <<conns, rooms, events, inbox>>
    /\ UNCHANGED <<memberships, everMember, acctVars, web, guardVars, pageVars, svcVars>>

\* handleConnection up to `await this.jwt.verifyAsync(bearer)`:
\* if (!token || !tenantId) throw -> catch -> client.disconnect()
Connect(c, token, tenant) ==
    /\ serverReady
    /\ conns[c].pc = "none"
    /\ conns' = [conns EXCEPT ![c] =
                    IF token = NoToken \/ ~Truthy(tenant)
                    THEN Unauthorized(IF token = NoToken THEN "token" ELSE "tenant")
                    ELSE [NoConn EXCEPT !.pc = "verifying", !.live = TRUE,
                                        !.token = token, !.rawTenant = tenant]]
    /\ UNCHANGED <<serverReady, rooms, events, inbox>>
    /\ UNCHANGED <<memberships, everMember, acctVars, web, guardVars, pageVars, svcVars>>

\* The tenant prefix of every room name built in handleConnection: the
\* handshake value as received (only the bound client.tenantId is trimmed).
RoomTenant(conn) == conn.rawTenant

\* handleConnection after verifyAsync settles: bind, auto-join, register handlers;
\* a rejected verification lands in the catch block.  Nothing is asked of the
\* membership store; member records, for the properties, whether a UserTenant
\* row (payload.sub, tenantId) existed at this moment.
VerifyDone(c) ==
    /\ conns[c].pc = "verifying"
    /\ IF ~TokenVerifies(conns[c].token)
       THEN /\ conns' = [conns EXCEPT ![c] = Unauthorized("verify")]
            /\ rooms' = RoomsDelAll(c)
       ELSE /\ conns' = [conns EXCEPT ![c] =
                            [@ EXCEPT !.pc = "open",
                                      !.userId = conns[c].token,
                                      !.tenantId = Trim(conns[c].rawTenant),
                                      !.member = isUserMemberOfTenant(
                                                     conns[c].token,
                                                     Trim(conns[c].rawTenant))]]
            /\ rooms' = RoomsAdd(c, RoomTenant(conns[c]) \o <<":">> \o LitRoomBoards)
    /\ UNCHANGED <<serverReady, events, inbox>>
    /\ UNCHANGED <<memberships, everMember, acctVars, web, guardVars, pageVars, svcVars>>

\* String(data?.boardId || '').trim()
CleanBoardId(data) == IF Truthy(data) THEN Trim(data) ELSE <<>>

\* client.on('join_board', ...): a message on a socket with no handler yet is dropped.
JoinBoard(c, data) ==
    /\ conns[c].live
    /\ conns[c].pc \in {"verifying", "open"}
    /\ rooms' = IF conns[c].pc = "open" /\ CleanBoardId(data) # <<>>
                THEN RoomsAdd(c, BoardRoom(RoomTenant(conns[c]), CleanBoardId(data)))
                ELSE rooms
    /\ UNCHANGED <<serverReady, conns, events, inbox>>
    /\ UNCHANGED <<memberships, everMember, acctVars, web, guardVars, pageVars, svcVars>>

\* client.on('leave_board', ...)
LeaveBoard(c, data) ==
    /\ conns[c].live
    /\ conns[c].pc \in {"verifying", "open"}
    /\ rooms' = IF conns[c].pc = "open" /\ CleanBoardId(data) # <<>>
                THEN RoomsDel(c, BoardRoom(RoomTenant(conns[c]), CleanBoardId(data)))
                ELSE rooms
    /\ UNCHANGED <<serverReady, conns, events, inbox>>
    /\ UNCHANGED <<memberships, everMember, acctVars, web, guardVars, pageVars, svcVars>>

\* Transport disconnect: Socket.IO removes the socket from the namespace and
\* from every room.
Disconnect(c) ==
    /\ conns[c].live
    /\ conns' = [conns EXCEPT ![c].live = FALSE]
    /\ rooms' = RoomsDelAll(c)
    /\ UNCHANGED <<serverReady, events, inbox>>
    /\ UNCHANGED <<memberships, everMember, acctVars, web, guardVars, pageVars, svcVars>>

BroadcastReplayMut(room, ev) ==
    /\ events' = Append(events, ev)
    /\ inbox' = [c \in Conns |->
                    IF c \in InRoom(room) /\ conns[c].live
                    THEN SelectSeq([i \in 1..Len(events) |-> i],
                                   LAMBDA i : /\ events[i].room = room
                                              /\ \A k \in 1..Len(inbox[c]) : inbox[c][k] # i)
                         \o inbox[c] \o <<Len(events) + 1>>
                    ELSE inbox[c]]

BroadcastMut(room, ev) ==
    /\ events' = Append(events, ev)
    /\ inbox' = [c \in Conns |->
                    IF conns[c].live
                    THEN Append(inbox[c], Len(events) + 1) ELSE inbox[c]]

\* server.to(room).emit(event, payload): one packet to every connected socket
\* whose id is in the room.
Broadcast(room, ev) ==
    /\ events' = Append(events, ev)
    /\ inbox' = [c \in Conns |->
                    IF c \in InRoom(room) /\ conns[c].live
                    THEN Append(inbox[c], Len(events) + 1) ELSE inbox[c]]

ServerUpMut == TRUE

\* !(!this.gateway.server || !this.gateway.server.sockets)
ServerUp == serverReady

\* if (!server || !server.sockets) { warn; return }: the call is recorded as
\* not issued and nothing is sent.
Skipped(ev) ==
    /\ events' = Append(events, [ev EXCEPT !.issued = FALSE])
    /\ inbox' = inbox

\* this.gateway.server.sockets.adapter / this.gateway.server.to(room) read on
\* an undefined server: a TypeError leaves the call.
Threw(ev) ==
    /\ events' = Append(events, [ev EXCEPT !.issued = FALSE, !.threw = TRUE])
    /\ inbox' = inbox

\* An emitToBoard / emitToTenant call as recorded in events: its arguments,
\* the room it resolved, whether the transport was initialised when it was
\* made, whether server.to(room).emit was issued, and whether the call threw.
EmitCall(kind, t, b, room) ==
    [kind |-> kind, tenant |-> t, board |-> b, room |-> room,
     ready |-> serverReady, issued |-> TRUE, threw |-> FALSE]

\* The statements after the readiness check: adapter?.rooms?.get(room) only
\* feeds the log lines; then server.to(room).emit(event, payload).
EmitToRoom(room, ev) ==
    IF serverReady THEN Broadcast(room, ev) ELSE Threw(ev)

\* RealtimeService.emitToBoard(tenantId, boardId, event, payload)
EmitToBoard(t, b) ==
    /\ Len(events) < MaxEvents
    /\ IF ServerUp
       THEN EmitToRoom(BoardRoom(t, b), EmitCall("board", t, b, BoardRoom(t, b)))
       ELSE Skipped(EmitCall("board", t, b, BoardRoom(t, b)))
    /\ UNCHANGED <<serverReady, conns, rooms>>
    /\ UNCHANGED <<memberships, everMember, acctVars, web, guardVars, pageVars, svcVars>>

\* RealtimeService.emitToTenant(tenantId, event, payload)
EmitToTenant(t) ==
    /\ Len(events) < MaxEvents
    /\ IF ServerUp
       THEN EmitToRoom(TenantRoom(t), EmitCall("tenant", t, Undef, TenantRoom(t)))
       ELSE Skipped(EmitCall("tenant", t, Undef, TenantRoom(t)))
    /\ UNCHANGED <<serverReady, conns, rooms>>
    /\ UNCHANGED <<memberships, everMember, acctVars, web, guardVars, pageVars, svcVars>>

----------------------------------------------------------------------------
(* Specifications *)

EmptyMap == [k \in {} |-> {}]

GuardIdle == guard = NoGuard
PageIdle ==
    /\ table = {}
    /\ walk = [tenant |-> TenantP, parent |-> Undef, limit |-> 1, cursor |-> Undef, pages |-> <<>>,
               done |-> TRUE]
SvcIdle ==
    /\ boards = {}
    /\ todos = {}
    /\ cache = EmptyMap
    /\ storedBy = EmptyMap
    /\ cacheDown = FALSE
    /\ everDown = FALSE
    /\ nextBoard = 0
    /\ nextTodo = 0
    /\ req = Idle
    /\ focus = "boards"
    /\ calls = 0
    /\ bg = Idle
RtIdle ==
    /\ serverReady = FALSE
    /\ conns = [c \in Conns |-> NoConn]
    /\ rooms = EmptyMap
    /\ events = <<>>
    /\ inbox = [c \in Conns |-> <<>>]
\* Tenant and User rows after the same two signups.
InitTenants ==
    {[id |-> TenantP, name |-> <<"a">> \o LitWorkspace],
     [id |-> TenantQ, name |-> <<"b">> \o LitWorkspace]}
InitUsers == {[id |-> "u1", email |-> <<"a">>], [id |-> "u2", email |-> <<"b">>]}

NoAcct == [op |-> "none", user |-> NoUser, tenant |-> Undef, email |-> Undef,
           kind |-> "none", n |-> 0]

AcctIdle ==
    /\ tenantRows = InitTenants
    /\ userRows = InitUsers
    /\ nextSignup = 0
    /\ acct = NoAcct

\* App.tsx before login: useState('') / useRef('') / socketRef.current = null.
\* boardId stands for the boardId state and boardIdRef.current, which the
\* component always sets together; captured is the boardId the socket
\* effect closed over; conn is the server-side socket of the current
\* connection; once holds the boardIds of the pending s.once('connect')
\* callbacks; outbox the join_board messages on their way to the server;
\* sent the boardIds of the join_board messages emitted on the current
\* connection; boards and todos are the lists on screen (ids, newest
\* first); handled the ids of the created events already applied; answered
\* the number of the last service call whose HTTP response was applied.
NoWeb ==
    [boardId |-> <<>>, opening |-> <<>>, captured |-> <<>>, sock |-> "none",
     conn |-> 0, once |-> {}, outbox |-> {}, sent |-> {},
     boards |-> <<>>, todos |-> <<>>, handled |-> {}, answered |-> 0]

StoreInit ==
    /\ memberships = InitMemberships
    /\ everMember = KeysOf(InitMemberships)
    /\ AcctIdle
    /\ web = NoWeb

GuardInit == StoreInit /\ GuardIdle /\ PageIdle /\ SvcIdle /\ RtIdle

GuardNext ==
    \/ \E u \in Users, t \in TenantIds : AddMember(u, t)
    \/ \E u \in Users, t \in TenantIds : RemoveMember(u, t)
    \/ \E u \in Users \cup {NoUser}, h \in HeaderInputs, q \in ParamInputs :
          GuardDirect(u, h, q)
    \/ \E u \in Users \cup {NoUser}, h \in HeaderInputs, q \in ParamInputs :
          GuardRoute(u, h, q)

SpecGuard == GuardInit /\ [][GuardNext]_vars

PageSpecInit == StoreInit /\ GuardIdle /\ PageInit /\ SvcIdle /\ RtIdle

SpecPage == PageSpecInit /\ [][PageNext]_vars

\* A run issues the calls of one controller: BoardsController, or
\* TodosController together with the board creations and deletions its
\* todos depend on.
SvcInit ==
    /\ boards = {}
    /\ todos = {}
    /\ cache = EmptyMap
    /\ storedBy = EmptyMap
    /\ cacheDown = FALSE
    /\ everDown = FALSE
    /\ nextBoard = 0
    /\ nextTodo = 0
    /\ req = Idle
    /\ focus \in {"boards", "todos"}
    /\ calls = 0
    /\ bg = Idle

Init == StoreInit /\ GuardIdle /\ PageIdle /\ SvcInit /\ RtIdle

RtInit == StoreInit /\ GuardIdle /\ PageIdle /\ SvcIdle /\ RtIdle

Next ==
    \/ CallListBoards
    \/ CallCreateBoard
    \/ CallGetBoard
    \/ CallUpdateBoard
    \/ CallDeleteBoard
    \/ CallListTodos
    \/ CallCreateTodo
    \/ CallGetTodo
    \/ CallUpdateTodo
    \/ CallDeleteTodo
    \/ StepMember
    \/ StepFind
    \/ StepWrite
    \/ StepInvalidate
    \/ StepEmit
    \/ StepCacheGet
    \/ StepQuery
    \/ StepCacheSet
    \/ CacheExpire

Spec == Init /\ [][Next]_vars

\* Board (or todo) creations, updates and first-page lists issued one after
\* the other, while first-page lists of a second client are in flight.
RaceCallCreate ==
    \/ /\ nextBoard < MaxBoards
       /\ Call("createBoard", RaceUser, RaceTenant, Undef, Undef, "n1", DefaultLimit,
               Undef)
    \/ /\ focus = "todos"
       /\ nextTodo < MaxTodos
       /\ Call("createTodo", RaceUser, RaceTenant, Undef, BoardId(1), "n1",
               DefaultLimit, Undef)

RaceCallUpdate ==
    \E n \in Names :
        IF focus = "boards"
        THEN Call("updateBoard", RaceUser, RaceTenant, BoardId(1), Undef, n,
                  DefaultLimit, Undef)
        ELSE Call("updateTodo", RaceUser, RaceTenant, TodoId(1), Undef, n,
                  DefaultLimit, Undef)

RaceCallList ==
    IF focus = "boards"
    THEN Call("listBoards", RaceUser, RaceTenant, Undef, Undef, "", DefaultLimit, Undef)
    ELSE Call("listTodos", RaceUser, RaceTenant, Undef, BoardId(1), "", DefaultLimit,
              Undef)

RaceCallDelete ==
    IF focus = "boards"
    THEN Call("deleteBoard", RaceUser, RaceTenant, BoardId(1), Undef, "", DefaultLimit,
              Undef)
    ELSE Call("deleteTodo", RaceUser, RaceTenant, TodoId(1), Undef, "", DefaultLimit,
              Undef)

RaceNext ==
    \/ RaceCallCreate
    \/ RaceCallUpdate
    \/ RaceCallList
    \/ StepMember
    \/ StepFind
    \/ StepWrite
    \/ StepInvalidate
    \/ StepEmit
    \/ StepCacheGet
    \/ StepQuery
    \/ StepCacheSet
    \/ BgCall
    \/ BgMember
    \/ BgCacheGet
    \/ BgQuery
    \/ BgCacheSet

SpecRace == Init /\ [][RaceNext]_vars

\* Creations and updates issued one after the other, while deletions by a
\* second client are in flight.
OverlapNext ==
    \/ RaceCallCreate
    \/ RaceCallUpdate
    \/ StepMember
    \/ StepFind
    \/ StepWrite
    \/ StepInvalidate
    \/ StepEmit
    \/ BgCallDelete
    \/ BgMember
    \/ BgFind
    \/ BgWrite
    \/ BgInvalidate
    \/ BgEmit

SpecOverlap == Init /\ [][OverlapNext]_vars

\* createTodo / updateTodo called by the member with an assigneeUserId.
CallAssigned(op, id, board, val, a) ==
    /\ ~InFlight
    /\ calls < MaxCalls
    /\ calls' = calls + 1
    /\ req' = [Idle EXCEPT !.op = op, !.user = RaceUser, !.tenant = RaceTenant,
                           !.id = id, !.board = board, !.val = val, !.assignee = a,
                           !.pc = "member"]
    /\ UNCHANGED <<boards, todos, cache, storedBy, cacheDown, everDown, nextBoard, nextTodo, focus, bg>>
    /\ UNCHANGED <<memberships, everMember, acctVars, web, guardVars, pageVars, rtVars>>

AssignCallCreate ==
    /\ focus = "todos"
    /\ nextTodo < MaxTodos
    /\ \E a \in Users : CallAssigned("createTodo", Undef, BoardId(1), "n1", a)

AssignCallUpdate ==
    /\ focus = "todos"
    /\ \E a \in Users \cup {NullAssignee} :
          CallAssigned("updateTodo", TodoId(1), Undef, "n1", a)

\* Todos created and updated with assignees by a member of the tenant.
AssignNext ==
    \/ RaceCallCreate
    \/ AssignCallCreate
    \/ AssignCallUpdate
    \/ StepMember
    \/ StepFind
    \/ StepWrite
    \/ StepInvalidate
    \/ StepEmit

SpecAssign == Init /\ [][AssignNext]_vars

RaceCallGet ==
    IF focus = "boards"
    THEN Call("getBoard", RaceUser, RaceTenant, BoardId(1), Undef, "", DefaultLimit, Undef)
    ELSE Call("getTodo", RaceUser, RaceTenant, TodoId(1), Undef, "", DefaultLimit, Undef)

\* The calls of one user, one after the other, while the user's membership
\* row in the tenant is deleted and created again.
MemberNext ==
    \/ RaceCallCreate
    \/ RaceCallUpdate
    \/ RaceCallDelete
    \/ RaceCallList
    \/ RaceCallGet
    \/ StepMember
    \/ StepFind
    \/ StepWrite
    \/ StepInvalidate
    \/ StepEmit
    \/ StepCacheGet
    \/ StepQuery
    \/ StepCacheSet
    \/ RemoveMember(RaceUser, RaceTenant)
    \/ AddMember(RaceUser, RaceTenant)

SpecMember == Init /\ [][MemberNext]_vars

----------------------------------------------------------------------------
(* The tenant a controller hands to its service *)

ActiveTenantMut(activeTenantId, header) ==
    IF Truthy(header) THEN Trim(header) ELSE activeTenantId

\* The ActiveTenant decorator: if (req.activeTenantId) return it; otherwise
\* the header, trimmed, when it is a string; otherwise undefined.
ActiveTenant(activeTenantId, header) ==
    IF Truthy(activeTenantId) THEN activeTenantId
    ELSE IF Truthy(header) THEN Trim(header)
    ELSE Undef

\* IdParamPipe.transform: (value ?? '').trim(); the empty string is a 400.
IdParamPipe(value) == IF value = Undef THEN <<>> ELSE Trim(value)

\* const tenantId = activeTenantId ?? tenantIdParam
HandlerTenant(activeTenantId, tenantIdParam) ==
    IF activeTenantId # Undef THEN activeTenantId ELSE tenantIdParam

MaxRouteCalls == 2

\* The service methods the ten tenant-scoped handlers call.
HandlerOps ==
    {"listBoards", "createBoard", "getBoard", "updateBoard", "deleteBoard",
     "listTodos", "createTodo", "getTodo", "updateTodo", "deleteTodo"}

\* Values of req.activeTenantId on a request no guard has touched or one a
\* guard has bound.
BoundInputs == {Undef, TenantP, TenantQ}

\* The parameter decorators and the first statement of a handler evaluated on
\* a request object, whatever ran before it.
HandlerDirect(active, header, param) ==
    /\ ~InFlight
    /\ guard' = [via |-> "decorator", user |-> NoUser, header |-> header,
                 param |-> param, res |-> GuardResult("none", "", active),
                 store |-> MemberKeys,
                 handed |-> HandlerTenant(ActiveTenant(active, header), param)]
    /\ UNCHANGED <<memberships, everMember, acctVars, web, pageVars, svcVars, rtVars>>

\* A request to a route of BoardsController or TodosController: the guards,
\* then IdParamPipe and ActiveTenant, then the handler calling its service.
HandlerRoute(op, user, header, param) ==
    /\ ~InFlight
    /\ calls < MaxRouteCalls
    /\ calls' = calls + 1
    /\ LET res == RouteGuards(user, header, param)
           served == res.outcome = "ok" /\ IdParamPipe(param) # <<>>
           tenantId == HandlerTenant(ActiveTenant(res.activeTenantId, header),
                                     IdParamPipe(param))
       IN  /\ guard' = [via |-> "handler", user |-> user, header |-> header,
                        param |-> param, res |-> res, store |-> MemberKeys,
                        handed |-> IF served THEN tenantId ELSE Undef]
           /\ req' = IF served
                     THEN [Idle EXCEPT !.op = op, !.user = user, !.tenant = tenantId,
                                       !.id = IF IsBoardOp(op) THEN BoardId(1)
                                              ELSE TodoId(1),
                                       !.board = BoardId(1), !.val = "n1",
                                       !.pc = "member"]
                     ELSE req
    /\ UNCHANGED <<boards, todos, cache, storedBy, cacheDown, everDown, nextBoard, nextTodo, focus, bg>>
    /\ UNCHANGED <<memberships, everMember, acctVars, web, pageVars, rtVars>>

\* Requests to the tenant-scoped routes while memberships come and go.
RouteNext ==
    \/ \E op \in HandlerOps, u \in {RaceUser, NoUser}, h \in HeaderInputs,
          q \in ParamInputs : HandlerRoute(op, u, h, q)
    \/ \E a \in BoundInputs, h \in HeaderInputs, q \in ParamInputs :
          HandlerDirect(a, h, q)
    \/ AddMember(RaceUser, RaceTenant)
    \/ RemoveMember(RaceUser, RaceTenant)
    \/ StepMember
    \/ StepFind
    \/ StepWrite
    \/ StepInvalidate
    \/ StepEmit
    \/ StepCacheGet
    \/ StepQuery
    \/ StepCacheSet

SpecRoute == Init /\ [][RouteNext]_vars

----------------------------------------------------------------------------
(* PATCH .../todos/:todoId: the request body, the ValidationPipe, updateTodo *)

\* Request bodies: the four properties of UpdateTodoDto, each present or
\* not, and the two parent columns a client may try to send along.
PatchBodies ==
    [title : {"n2"}, description : {Absent, "d2"}, status : {Absent, "DONE"},
     assigneeUserId : {NoAssignee, NullAssignee, "u1"},
     tenantId : {Undef, TenantQ}, boardId : {Undef, BoardId(2)}]

ValidationPipeMut(body) == TRUE

\* new ValidationPipe({ whitelist: true, forbidNonWhitelisted: true }) over
\* UpdateTodoDto: a body with a property the DTO does not declare is rejected.
ValidationPipe(body) == body.tenantId = Undef /\ body.boardId = Undef

\* TodosController.update: the validated body is handed to updateTodo as the
\* patch; a rejected body never reaches the service.
PatchCallUpdate ==
    /\ focus = "todos"
    /\ ~InFlight
    /\ calls < MaxCalls
    /\ calls' = calls + 1
    /\ \E body \in PatchBodies :
          LET r == [Idle EXCEPT !.op = "updateTodo", !.user = RaceUser,
                                !.tenant = RaceTenant, !.id = TodoId(1),
                                !.val = body.title,
                                !.assignee = body.assigneeUserId,
                                !.patch = [description |-> body.description,
                                           status |-> body.status,
                                           tenantId |-> body.tenantId,
                                           boardId |-> body.boardId]]
          IN  req' = IF ValidationPipe(body)
                     THEN [r EXCEPT !.pc = "member"]
                     ELSE Finish(r, Result("BadRequest", "property should not exist",
                                           NoEnvelope))
    /\ UNCHANGED <<boards, todos, cache, storedBy, cacheDown, everDown, nextBoard, nextTodo, focus, bg>>
    /\ UNCHANGED <<memberships, everMember, acctVars, web, guardVars, pageVars, rtVars>>

\* Boards and todos created, renamed, patched and deleted by a member.
PatchNext ==
    \/ RaceCallCreate
    \/ RaceCallUpdate
    \/ PatchCallUpdate
    \/ RaceCallDelete
    \/ StepMember
    \/ StepFind
    \/ StepWrite
    \/ StepInvalidate
    \/ StepEmit

SpecPatch == Init /\ [][PatchNext]_vars

----------------------------------------------------------------------------
(* AuthService.signup and TenantsService: users, tenants, memberships *)

MaxSignups == 2
MaxAcctOps == 4

\* String.prototype.toLowerCase over the letters the inputs are made of.
LowerChar(c) ==
    CASE c = "A" -> "a" [] c = "B" -> "b" [] c = "C" -> "c" [] OTHER -> c
ToLowerCase(s) == [i \in 1..Len(s) |-> LowerChar(s[i])]

normalizeEmail(emailRaw) == ToLowerCase(Trim(emailRaw))

buildDefaultTenantName(email) == email \o LitWorkspace

\* The ids the store generates for the rows of the n-th successful signup.
SignupUserIds == <<"u3", "u4", "u5", "u6">>
SignupTenantIds == <<(<<"r">>), (<<"s">>), (<<"v">>), (<<"w">>)>>

AcctUsers == Users \cup {SignupUserIds[n] : n \in 1..MaxSignups}
AcctTenants == TenantIds \cup {SignupTenantIds[n] : n \in 1..MaxSignups}

SignupEmails == {<<"a">>, <<" ", "A">>, <<"c">>, <<"C", " ">>}
MemberEmails == {<<"a">>, <<"b">>, <<"B">>, <<"c">>, <<"z">>}

AcctCall(op, user, tenant, email, kind) ==
    [op |-> op, user |-> user, tenant |-> tenant, email |-> email,
     kind |-> kind, n |-> acct.n + 1]

\* The three tables a signup transaction writes, and whether a statement
\* of the transaction has failed.
Db == [ok |-> TRUE, users |-> userRows, tenants |-> tenantRows,
       members |-> memberships]

UserCreateMut(db, row) == [db EXCEPT !.users = @ \cup {row}]

\* tx.user.create under User_email_key
UserCreate(db, row) ==
    IF \E u \in db.users : u.email = row.email
    THEN [db EXCEPT !.ok = FALSE]
    ELSE [db EXCEPT !.users = @ \cup {row}]

\* tx.tenant.create under Tenant_name_key
TenantCreate(db, row) ==
    IF ~db.ok THEN db
    ELSE IF \E t \in db.tenants : t.name = row.name
    THEN [db EXCEPT !.ok = FALSE]
    ELSE [db EXCEPT !.tenants = @ \cup {row}]

\* tx.userTenant.create under UserTenant_pkey and its two foreign keys
UserTenantCreate(db, row) ==
    IF ~db.ok THEN db
    ELSE IF \/ <<row.userId, row.tenantId>> \in KeysOf(db.members)
            \/ row.userId \notin {u.id : u \in db.users}
            \/ row.tenantId \notin {t.id : t \in db.tenants}
    THEN [db EXCEPT !.ok = FALSE]
    ELSE [db EXCEPT !.members = @ \cup {row}]

\* prisma.$transaction: the writes of a failed transaction are rolled back.
Transaction(db) == IF db.ok THEN db ELSE [Db EXCEPT !.ok = FALSE]

\* AuthService.signup(emailRaw, password)
Signup(emailRaw) ==
    /\ acct.n < MaxAcctOps
    /\ nextSignup < MaxSignups
    /\ LET email == normalizeEmail(emailRaw)
           uid == SignupUserIds[nextSignup + 1]
           tid == SignupTenantIds[nextSignup + 1]
           db == Transaction(
                   UserTenantCreate(
                     TenantCreate(
                       UserCreate(Db, [id |-> uid, email |-> email]),
                       [id |-> tid, name |-> buildDefaultTenantName(email)]),
                     [userId |-> uid, tenantId |-> tid, role |-> "member"]))
       IN  /\ userRows' = db.users
           /\ tenantRows' = db.tenants
           /\ memberships' = db.members
           /\ everMember' = everMember \cup KeysOf(db.members)
           /\ nextSignup' = IF db.ok THEN nextSignup + 1 ELSE nextSignup
           /\ acct' = IF db.ok
                      THEN AcctCall("signup", uid, tid, emailRaw, "ok")
                      ELSE AcctCall("signup", NoUser, Undef, emailRaw, "Conflict")
    /\ UNCHANGED <<guardVars, pageVars, svcVars, rtVars, web>>

\* TenantsService.addUserToTenantByEmail(tenantId, email)
AddUserToTenantByEmail(tenantId, email) ==
    /\ acct.n < MaxAcctOps
    /\ LET found == {u \in userRows : u.email = email}
       IN  IF found = {}
           THEN /\ acct' = AcctCall("addMember", NoUser, tenantId, email, "NotFound")
                /\ UNCHANGED <<memberships, everMember>>
           ELSE LET user == CHOOSE u \in found : TRUE
                IN  IF tenantId \in {t.id : t \in tenantRows}
                    THEN /\ memberships' = Upsert(user.id, tenantId)
                         /\ everMember' = everMember \cup {<<user.id, tenantId>>}
                         /\ acct' = AcctCall("addMember", user.id, tenantId, email, "ok")
                    ELSE \* UserTenant_tenantId_fkey
                         /\ acct' = AcctCall("addMember", user.id, tenantId, email, "Error")
                         /\ UNCHANGED <<memberships, everMember>>
    /\ UNCHANGED <<tenantRows, userRows, nextSignup, guardVars, pageVars, svcVars, rtVars, web>>

OnDeleteCascadeMut(rows, tenantId) == {}

\* FOREIGN KEY ("tenantId") REFERENCES "Tenant"("id") ON DELETE CASCADE
OnDeleteCascade(rows, tenantId) == {r \in rows : r.tenantId # tenantId}

\* TenantsService.deleteTenant(userId, tenantId)
DeleteTenant(userId, tenantId) ==
    /\ acct.n < MaxAcctOps
    /\ IF ~isUserMemberOfTenant(userId, tenantId)
       THEN /\ acct' = AcctCall("deleteTenant", userId, tenantId, Undef, "Forbidden")
            /\ UNCHANGED <<memberships, tenantRows, boards, todos>>
       ELSE IF tenantId \notin {t.id : t \in tenantRows}
       THEN /\ acct' = AcctCall("deleteTenant", userId, tenantId, Undef, "NotFound")
            /\ UNCHANGED <<memberships, tenantRows, boards, todos>>
       ELSE /\ tenantRows' = {t \in tenantRows : t.id # tenantId}
            /\ memberships' = OnDeleteCascade(memberships, tenantId)
            /\ boards' = OnDeleteCascade(boards, tenantId)
            \* Todo_tenantId_fkey and, through the boards, Todo_boardId_fkey
            /\ todos' = {t \in OnDeleteCascade(todos, tenantId) :
                           t.boardId \in {b.id : b \in OnDeleteCascade(boards, tenantId)}}
            /\ acct' = AcctCall("deleteTenant", userId, tenantId, Undef, "ok")
    /\ UNCHANGED <<userRows, nextSignup, everMember, guardVars, pageVars, rtVars, web,
                   cache, storedBy, cacheDown, everDown, nextBoard, nextTodo, req, focus,
                   calls, bg>>

\* Two tenants that already hold a board with a todo each, and a membership
\* whose role was set in the database to something other than the default.
AcctInit ==
    /\ memberships \in
         {{[userId |-> "u1", tenantId |-> TenantP, role |-> r],
           [userId |-> "u2", tenantId |-> TenantQ, role |-> "member"]} :
          r \in {"member", "admin"}}
    /\ everMember = KeysOf(memberships)
    /\ AcctIdle
    /\ web = NoWeb
    /\ GuardIdle /\ PageIdle /\ RtIdle
    /\ boards = {[id |-> BoardId(1), tenantId |-> TenantP, val |-> "n1"],
                 [id |-> BoardId(2), tenantId |-> TenantQ, val |-> "n1"]}
    /\ todos = {[id |-> TodoId(1), tenantId |-> TenantP, boardId |-> BoardId(1),
                 val |-> "n1", description |-> "", status |-> "TODO",
                 assignee |-> NullAssignee],
                [id |-> TodoId(2), tenantId |-> TenantQ, boardId |-> BoardId(2),
                 val |-> "n1", description |-> "", status |-> "TODO",
                 assignee |-> NullAssignee]}
    /\ cache = EmptyMap
    /\ storedBy = EmptyMap
    /\ cacheDown = FALSE
    /\ everDown = FALSE
    /\ nextBoard = 2
    /\ nextTodo = 2
    /\ req = Idle
    /\ focus = "boards"
    /\ calls = 0
    /\ bg = Idle

AcctNext ==
    \/ \E e \in SignupEmails : Signup(e)
    \/ \E t \in AcctTenants, e \in MemberEmails : AddUserToTenantByEmail(t, e)
    \/ \E u \in AcctUsers, t \in AcctTenants : DeleteTenant(u, t)

SpecAcct == AcctInit /\ [][AcctNext]_vars

----------------------------------------------------------------------------
\* The calls of one member, one after the other, over a cache backend that
\* goes down and comes back and a realtime layer whose emit may throw.
FailNext ==
    \/ RaceCallCreate
    \/ RaceCallUpdate
    \/ RaceCallDelete
    \/ RaceCallList
    \/ StepMember
    \/ StepFind
    \/ StepWrite
    \/ StepInvalidate
    \/ StepEmit
    \/ StepEmitThrows
    \/ StepCacheGet
    \/ StepQuery
    \/ StepCacheSet
    \/ CacheFlip

SpecFail == Init /\ [][FailNext]_vars

RtNext ==
    \/ AfterInit
    \/ \E c \in RtConns, k \in TokenInputs, t \in TenantInputs : Connect(c, k, t)
    \/ \E c \in RtConns : VerifyDone(c)
    \/ \E c \in RtConns, d \in JoinInputs : JoinBoard(c, d)
    \/ \E c \in RtConns, d \in JoinInputs : LeaveBoard(c, d)
    \/ \E c \in RtConns : Disconnect(c)
    \/ \E t \in TenantIds, b \in EmitBoards : EmitToBoard(t, b)
    \/ \E t \in TenantIds : EmitToTenant(t)

SpecRT == RtInit /\ [][RtNext]_vars

\* Members of one tenant connect on every socket, join and leave the room of
\* one board and disconnect, while events are emitted to that tenant and board.
EmitNext ==
    \/ AfterInit
    \/ \E c \in Conns : Connect(c, RaceUser, RaceTenant)
    \/ \E c \in Conns : VerifyDone(c)
    \/ \E c \in Conns : JoinBoard(c, BoardId(1))
    \/ \E c \in Conns : LeaveBoard(c, BoardId(1))
    \/ \E c \in Conns : Disconnect(c)
    \/ EmitToBoard(RaceTenant, BoardId(1))
    \/ EmitToTenant(RaceTenant)

SpecEmit == RtInit /\ [][EmitNext]_vars

----------------------------------------------------------------------------
(* Properties of the guards (SpecGuard) *)

\* The tenant identifier the last guarded request resolved from its header.
GuardTenant == HeaderTenant(guard.header)

\* Header and path both name a tenant, and not the same one.
GuardInputsDiffer ==
    /\ Truthy(GuardTenant)
    /\ Truthy(guard.param)
    /\ GuardTenant # guard.param

\* The last guarded request reached TenantGuard with a principal.
GuardReached == guard.via # "none" /\ guard.user \in Users

GuardRowExists == <<guard.user, GuardTenant>> \in guard.store

\* C7 as stated: the guard succeeds only with a tenant header and a
\* Membership row in the store at the time of the check, binding that tenant;
\* without a row or without a header it fails with TenantAccessDenied and
\* binds nothing.
C7_AsStated ==
    GuardReached =>
        /\ guard.res.outcome = "ok" =>
              /\ Truthy(GuardTenant)
              /\ GuardRowExists
              /\ guard.res.activeTenantId = GuardTenant
        /\ (~Truthy(GuardTenant) \/ ~GuardRowExists) =>
              guard.res = GuardResult("Forbidden", MsgDenied, Undef)

\* C7: the guard succeeds only with a tenant header and a Membership row
\* (userId, tenantId) in the store at the time of the check, and then binds
\* exactly the trimmed header tenant; without a row or without a header it
\* binds nothing and fails with TenantAccessDenied, except that it fails with
\* TenantMismatch when header and path both name a tenant and differ.
C7_GuardDecision ==
    GuardReached =>
        /\ guard.res.outcome = "ok" =>
              /\ Truthy(GuardTenant)
              /\ GuardRowExists
              /\ guard.res.activeTenantId = GuardTenant
        /\ (~Truthy(GuardTenant) \/ ~GuardRowExists) =>
              guard.res = GuardResult("Forbidden",
                                      IF GuardInputsDiffer THEN MsgMismatch
                                      ELSE MsgDenied,
                                      Undef)

\* A membership that existed and was removed before the request is denied.
C7_Witness ==
    /\ guard.via = "direct"
    /\ guard.user \in Users
    /\ Truthy(GuardTenant)
    /\ <<guard.user, GuardTenant>> \in everMember \ guard.store
    /\ ~GuardInputsDiffer
    /\ guard.res = GuardResult("Forbidden", MsgDenied, Undef)

\* C8: when header and path both name a tenant and the two differ, TenantGuard
\* fails with TenantMismatch and binds no tenant, whether or not the user is a
\* member of either tenant.
C8_Mismatch ==
    (/\ guard.via = "direct" \/ GuardReached
     /\ GuardInputsDiffer)
        => guard.res = GuardResult("Forbidden", MsgMismatch, Undef)

\* A member of both named tenants is still refused on a mismatch.
C8_Witness ==
    /\ GuardReached
    /\ GuardInputsDiffer
    /\ GuardRowExists
    /\ <<guard.user, guard.param>> \in guard.store
    /\ guard.res.msg = MsgMismatch

\* C9 as stated: without a principal TenantGuard fails with Unauthenticated.
C9_AsStated ==
    (guard.via = "direct" /\ guard.user = NoUser)
        => guard.res.outcome = "Unauthorized"

\* C9: a request without a principal to a tenant-scoped route is refused by
\* JwtAuthGuard with Unauthorized, whatever tenant identifiers it carries, and
\* never reaches TenantGuard; TenantGuard invoked without a principal fails
\* with TenantMismatch when header and path differ and with TenantAccessDenied
\* otherwise, binding nothing.
C9_NoPrincipal ==
    guard.user = NoUser =>
        /\ guard.via = "route" =>
              guard.res = GuardResult("Unauthorized", MsgUnauth, Undef)
        /\ guard.via = "direct" =>
              guard.res = GuardResult("Forbidden",
                                      IF GuardInputsDiffer THEN MsgMismatch
                                      ELSE MsgDenied,
                                      Undef)

\* An anonymous request naming differing tenants is answered Unauthorized.
C9_Witness ==
    /\ guard.via = "route"
    /\ guard.user = NoUser
    /\ GuardInputsDiffer
    /\ guard.res.outcome = "Unauthorized"

----------------------------------------------------------------------------
(* Properties of the pagination walk (SpecPage) *)

RECURSIVE Concat(_)
Concat(ss) == IF ss = <<>> THEN <<>> ELSE Head(ss) \o Concat(Tail(ss))

\* The items the walk has been handed so far, in the order received.
WalkItems == Concat([i \in 1..Len(walk.pages) |-> walk.pages[i].data])

\* The ids of the rows in the scope the walk lists.
WalkScopeIds ==
    {r.id : r \in {x \in table :
                      /\ x.tenantId = walk.tenant
                      /\ walk.parent # Undef => x.boardId = walk.parent}}

----------------------------------------------------------------------------
(* Properties of the realtime gateway and distributor (SpecRT) *)

\* C2 as stated: a connection is authenticated and placed in a tenant-wide
\* room only if a Membership row (userId, tenantId) exists at handshake time;
\* a valid credential with a tenant the user is not a member of joins no room.
C2_AsStated ==
    \A c \in Conns :
        (conns[c].pc = "open" \/ RoomsOf(c) # {}) => conns[c].member

\* A user who is not a member of tenant q holds an open connection bound to q
\* and has been delivered an event emitted to q's tenant-wide room.
C2_Witness ==
    \E c \in Conns :
        /\ conns[c].pc = "open"
        /\ conns[c].tenantId = TenantQ
        /\ <<conns[c].userId, TenantQ>> \notin MemberKeys
        /\ \E i \in 1..Len(inbox[c]) :
              /\ events[inbox[c][i]].kind = "tenant"
              /\ events[inbox[c][i]].tenant = TenantQ

\* C4: an event emitted with emitToBoard for a tenant and a board is never
\* delivered to a connection bound to another tenant, whatever board rooms
\* the connections joined or left and in whatever order.
C4_RoomIsolation ==
    \A c \in Conns :
        \A i \in 1..Len(inbox[c]) :
            events[inbox[c][i]].kind = "board" =>
                conns[c].tenantId = events[inbox[c][i]].tenant

\* Two connections bound to different tenants have both joined the board room
\* of the same boardId; an event emitted for one tenant has reached that
\* tenant's connection and not the other's.
C4_Witness ==
    \E c \in Conns, d \in Conns :
        /\ conns[c].pc = "open" /\ conns[c].live /\ conns[c].tenantId = TenantP
        /\ conns[d].pc = "open" /\ conns[d].live /\ conns[d].tenantId = TenantQ
        /\ c \in InRoom(TenantP \o <<":">> \o BoardId(1))
        /\ d \in InRoom(TenantQ \o <<":">> \o BoardId(1))
        /\ \E i \in 1..Len(events) :
              /\ events[i].kind = "board"
              /\ events[i].tenant = TenantP
              /\ events[i].board = BoardId(1)
              /\ \E k \in 1..Len(inbox[c]) : inbox[c][k] = i
              /\ \A k \in 1..Len(inbox[d]) : inbox[d][k] # i

\* The room name the specification gives for an emit call.
StatedRoom(ev) ==
    IF ev.kind = "board"
    THEN ev.tenant \o <<":">> \o ev.board
    ELSE ev.tenant \o <<":">> \o <<"b","o","a","r","d","s">>

\* The positions of event i in the inbox of connection c.
Deliveries(c, i) == {k \in 1..Len(inbox[c]) : inbox[c][k] = i}

\* C14: every emitToBoard(t, b) call resolves the room t:b and every
\* emitToTenant(t) call the room t:boards, and an issued emit is delivered
\* exactly once to each connection that is in that room when the emit is
\* made and to no other connection.
C14_Delivery ==
    [][Len(events') = Len(events) + 1 =>
          LET ev == events'[Len(events')] IN
          /\ ev.room = StatedRoom(ev)
          /\ ev.issued =>
                \A c \in Conns :
                    inbox'[c] = IF c \in InRoom(StatedRoom(ev)) /\ conns[c].live
                                THEN Append(inbox[c], Len(events'))
                                ELSE inbox[c]]_vars

\* Three connections of one tenant are open; two of them are in the room of
\* board b1 and the third never joined it; a board event emitted for b1 sits
\* exactly once in the inbox of each of the two and not in the third's, which
\* holds no board event at all.
C14_Witness ==
    \E c \in Conns, d \in Conns, e \in Conns :
        /\ c # d /\ c # e /\ d # e
        /\ \A x \in {c, d, e} : conns[x].pc = "open" /\ conns[x].live
        /\ c \in InRoom(BoardRoom(RaceTenant, BoardId(1)))
        /\ d \in InRoom(BoardRoom(RaceTenant, BoardId(1)))
        /\ \A k \in 1..Len(inbox[e]) : events[inbox[e][k]].kind # "board"
        /\ \E i \in 1..Len(events) :
              /\ events[i].kind = "board" /\ events[i].issued
              /\ events[i].room = <<"p", ":", "b", "1">>
              /\ Cardinality(Deliveries(c, i)) = 1
              /\ Cardinality(Deliveries(d, i)) = 1
              /\ Deliveries(e, i) = {}

\* The connections that were delivered event i.
Reached(i) == {c \in Conns : Deliveries(c, i) # {}}

NoState(c) ==
    /\ conns[c].userId = NoUser
    /\ conns[c].tenantId = Undef
    /\ RoomsOf(c) = {}
    /\ inbox[c] = <<>>

\* C16: a connection whose handshake has no credential, no tenant identifier
\* or a credential that does not verify is closed, and neither while its
\* credential is being verified nor afterwards does it have a bound user or
\* tenant, a room, or a delivered event, whatever join_board and leave_board
\* messages it sent.
C16_FailedHandshake ==
    \A c \in Conns :
        /\ conns[c].pc = "refused" => ~conns[c].live
        /\ (conns[c].pc = "refused" \/ conns[c].token = BadToken) => NoState(c)

\* One connection was refused for a credential that failed verification and
\* another for a missing credential or tenant identifier, an event has been
\* issued to a tenant-wide room, and neither holds anything.
C16_Witness ==
    \E c \in Conns, d \in Conns :
        /\ conns[c].pc = "refused" /\ conns[c].refusal = "verify"
        /\ conns[d].pc = "refused" /\ conns[d].refusal \in {"token", "tenant"}
        /\ \E i \in 1..Len(events) : events[i].issued /\ events[i].kind = "tenant"
        /\ NoState(c) /\ NoState(d)

\* C17 as stated: a connection whose handshake succeeded and that has not
\* closed is in the tenant-wide room of its bound tenant, whatever join_board
\* and leave_board messages it sent.
C17_AsStated ==
    \A c \in Conns :
        (conns[c].pc = "open" /\ conns[c].live) =>
            c \in InRoom(TenantRoom(conns[c].tenantId))

\* A connection that presented tenant p, is bound to p and is still open was
\* delivered one event of p's tenant-wide room, is no longer in that room, and
\* missed a later event issued to it.
C17_Witness ==
    \E c \in Conns :
        /\ conns[c].pc = "open" /\ conns[c].live
        /\ conns[c].rawTenant = TenantP /\ conns[c].tenantId = TenantP
        /\ c \notin InRoom(TenantRoom(TenantP))
        /\ \E i \in 1..Len(events), j \in 1..Len(events) :
              /\ i < j
              /\ events[i].room = TenantRoom(TenantP) /\ events[i].issued
              /\ events[j].room = TenantRoom(TenantP) /\ events[j].issued
              /\ Deliveries(c, i) # {}
              /\ Deliveries(c, j) = {}

\* Room name r starts with tenant identifier t and the separator.
NamedWith(r, t) ==
    /\ Len(r) > Len(t)
    /\ SubSeq(r, 1, Len(t) + 1) = t \o <<":">>

\* Every room of every connection is named with the connection's bound tenantId.
RoomsNamedWithBound ==
    \A c \in Conns : \A r \in RoomsOf(c) : NamedWith(r, conns[c].tenantId)

\* The binding of an open connection does not change.
BindingFixed ==
    \A c \in Conns :
        (conns[c].pc = "open" /\ conns'[c].pc = "open") =>
            /\ conns'[c].userId = conns[c].userId
            /\ conns'[c].tenantId = conns[c].tenantId

\* C18 as stated: the (userId, tenantId) bound to a connection at handshake
\* never changes, and in every reachable state every room a connection
\* belongs to is named with that connection's bound tenantId.
C18_AsStated == [][BindingFixed]_vars /\ []RoomsNamedWithBound

\* An open connection bound to tenant p sits in rooms whose names start with
\* the padded identifier it presented, and an event issued to board b1 of
\* tenant p, whose room it asked to join, was not delivered to it.
C18_Witness ==
    \E c \in Conns :
        /\ conns[c].pc = "open" /\ conns[c].live
        /\ conns[c].tenantId = TenantP
        /\ RoomsOf(c) = {<<" ", "p", ":", "b", "o", "a", "r", "d", "s">>,
                         <<" ", "p", ":", "b", "1">>}
        /\ \E i \in 1..Len(events) :
              /\ events[i].issued
              /\ events[i].room = BoardRoom(TenantP, BoardId(1))
              /\ Deliveries(c, i) = {}

\* A boardId that is missing, empty or only whitespace.
Blank(data) == data = Undef \/ Trim(data) = <<>>

\* The room the specification names for a boardId on connection c.
StatedBoardRoom(c, data) == conns[c].tenantId \o <<":">> \o Trim(data)

\* C19 as stated: on an open connection bound to tenant T a join_board with a
\* boardId that is not blank adds the connection to T:trim(boardId) and
\* changes nothing else, a leave_board removes it from that room and changes
\* nothing else, and a blank boardId changes no room; no message puts
\* anything in the connection's inbox.
C19_AsStated ==
    [][\A c \in Conns, d \in JoinInputs :
          conns[c].pc = "open" =>
            /\ JoinBoard(c, d) =>
                  /\ rooms' = IF Blank(d) THEN rooms
                              ELSE RoomsAdd(c, StatedBoardRoom(c, d))
                  /\ inbox' = inbox
            /\ LeaveBoard(c, d) =>
                  /\ rooms' = IF Blank(d) THEN rooms
                              ELSE RoomsDel(c, StatedBoardRoom(c, d))
                  /\ inbox' = inbox]_vars

\* An open connection bound to tenant p asked to join board b1 and is in a
\* room for b1 that is not the room p:b1.
C19_Witness ==
    \E c \in Conns :
        /\ conns[c].pc = "open" /\ conns[c].live
        /\ conns[c].tenantId = TenantP
        /\ c \notin InRoom(StatedBoardRoom(c, BoardId(1)))
        /\ \E r \in RoomsOf(c) :
              Len(r) > 3 /\ SubSeq(r, Len(r) - 2, Len(r)) = <<":">> \o BoardId(1)

DeliversOnlyNew(c) ==
    \/ inbox'[c] = inbox[c]
    \/ /\ Len(events') = Len(events) + 1
       /\ inbox'[c] = Append(inbox[c], Len(events'))

\* No connection holds an event twice, and a call that issued no emit has
\* reached nobody.
NoDuplicateNoRetry ==
    /\ \A c \in Conns, i \in 1..Len(events) : Cardinality(Deliveries(c, i)) <= 1
    /\ \A i \in 1..Len(events) : ~events[i].issued => Reached(i) = {}

\* C21: the only thing a step ever delivers to a connection is the event
\* emitted in that step, so an event emitted while the connection was not in
\* the target room is not delivered to it later, whatever it joins; no event
\* is held twice by a connection; and a call that did not emit is not made
\* up for afterwards.
C21_AtMostOnce ==
    [][\A c \in Conns : DeliversOnlyNew(c)]_vars /\ []NoDuplicateNoRetry

\* Two events were issued to the room of board b1; a connection that is now
\* open and in that room holds the second and not the first, which was
\* emitted before it joined.
C21_Witness ==
    \E c \in Conns :
        /\ conns[c].pc = "open" /\ conns[c].live
        /\ c \in InRoom(BoardRoom(RaceTenant, BoardId(1)))
        /\ Len(events) = 2
        /\ \A i \in 1..2 : events[i].issued
                           /\ events[i].room = BoardRoom(RaceTenant, BoardId(1))
        /\ Deliveries(c, 1) = {}
        /\ Cardinality(Deliveries(c, 2)) = 1

----------------------------------------------------------------------------
(* Properties of BoardsService and TodosService (Spec) *)

Done == req.pc = "done"

\* The caller of the last request is a member of the tenant it named.
CallerIsMember == <<req.user, req.tenant>> \in MemberKeys

\* Rows of the resource the last request addresses that carry the id it named
\* and belong to a tenant other than the one it named.
ForeignTarget ==
    IF IsBoardOp(req.op)
    THEN {b \in boards : b.id = req.id /\ b.tenantId # req.tenant}
    ELSE {t \in todos : t.id = req.id /\ t.tenantId # req.tenant}

\* The board id a listTodos call named is the id of a board of another tenant.
ForeignBoardListed ==
    /\ req.op = "listTodos"
    /\ \E b \in boards : b.id = req.board /\ b.tenantId # req.tenant

\* The rows of the listed or addressed resource that belong to another tenant
\* than the one the request named.
ForeignRows ==
    IF IsBoardOp(req.op)
    THEN {Select(b) : b \in {x \in boards : x.tenantId # req.tenant}}
    ELSE {Select(t) : t \in {x \in todos : x.tenantId # req.tenant}}

ReturnsForeignRow ==
    \E i \in 1..Len(req.result.data) : req.result.data[i] \in ForeignRows

Refused == req.result.kind \in {"Forbidden", "NotFound"}

\* C1 as stated: every get, list, update and delete that names a tenant the
\* caller is not a member of, or names the caller's tenant together with the
\* id of another tenant's row (for a todo list: another tenant's board id),
\* ends in TenantAccessDenied or NotFound and returns no row of the other
\* tenant.
C1_AsStated ==
    (Done /\ req.op \notin {"createBoard", "createTodo"}) =>
        /\ ~CallerIsMember => Refused
        /\ ForeignTarget # {} => Refused
        /\ ForeignBoardListed => Refused
        /\ ~ReturnsForeignRow

\* C1: a get, list, update or delete naming a tenant the caller is not a
\* member of ends in TenantAccessDenied; a get, update or delete naming the
\* caller's tenant with the id of another tenant's row ends in NotFound; a
\* todo list naming the caller's tenant with another tenant's board id
\* succeeds with an empty page; none of them returns a row of the other
\* tenant.
C1_Isolation ==
    (Done /\ req.op \notin {"createBoard", "createTodo"}) =>
        /\ ~CallerIsMember => req.result = Forbidden
        /\ (CallerIsMember /\ ForeignTarget # {}) => req.result.kind = "NotFound"
        /\ (CallerIsMember /\ ForeignBoardListed) => req.result = Ok(NoEnvelope)
        /\ ~ReturnsForeignRow

\* A member of q lists, under q, the todos of a board of p that has a todo,
\* and is answered with an empty page.
C1_Witness ==
    /\ Done
    /\ req.op = "listTodos"
    /\ req.tenant = TenantQ
    /\ <<req.user, TenantP>> \notin MemberKeys
    /\ \E t \in todos : t.tenantId = TenantP /\ t.boardId = req.board
    /\ req.result = Ok(NoEnvelope)

\* The last request was a first-page list that succeeded.
FirstPageListed ==
    /\ Done
    /\ req.op \in {"listBoards", "listTodos"}
    /\ ~Truthy(req.cursor)
    /\ req.result.kind = "ok"

\* The rows a list call of the last request's kind reads.
ListedTable == IF req.op = "listBoards" THEN boards ELSE todos

\* C3 as stated: a first-page list, whatever its page size, never returns for
\* an item a value other than the one the store holds for it, i.e. never the
\* pre-update value of an updated item.
C3_AsStated ==
    FirstPageListed =>
        \A i \in 1..Len(req.result.data) :
            \A row \in ListedTable :
                row.id = req.result.data[i].id => row.val = req.result.data[i].val

\* A todo was created, listed with page size 1, updated, and listed again with
\* page size 1: the second list returns the value the todo had before.
C3_Witness ==
    /\ FirstPageListed
    /\ req.op = "listTodos"
    /\ req.limit = OtherLimit
    /\ \E t \in todos :
          /\ t.tenantId = req.tenant
          /\ t.boardId = req.board
          /\ Len(req.result.data) = 1
          /\ req.result.data[1].id = t.id
          /\ req.result.data[1].val # t.val

UpdateOrDelete == req.op \in {"updateBoard", "deleteBoard", "updateTodo", "deleteTodo"}

\* The NotFound response of the resource the last request addresses.
NotFoundOf(op) == NotFound(IF IsBoardOp(op) THEN MsgBoard ELSE MsgTodo)

\* No row with the named id exists and the request wrote nothing.
AbsentTarget ==
    /\ req.trace = <<>>
    /\ \A row \in (IF IsBoardOp(req.op) THEN boards ELSE todos) : row.id # req.id

\* C5: an update or delete issued under tenant T by a member of T is answered
\* with one and the same NotFound response (kind and message) when no row has
\* the identifier and when a row of another tenant has it.
C5_SameNotFound ==
    (Done /\ UpdateOrDelete /\ CallerIsMember) =>
        /\ AbsentTarget => req.result = NotFoundOf(req.op)
        /\ ForeignTarget # {} => req.result = NotFoundOf(req.op)

\* A member of p updated, under p, the id of a todo of q and got NotFound.
C5_Witness ==
    /\ Done
    /\ req.op = "updateTodo"
    /\ req.tenant = TenantP
    /\ CallerIsMember
    /\ ForeignTarget # {}
    /\ req.result = NotFound(MsgTodo)

\* The write, invalidation and emit steps a request has taken, in order.
MutationSteps ==
    SelectSeq(req.trace, LAMBDA e : e.step \in {"write", "del", "emit"})

\* The first-page key of the scope a mutation affects.
AffectedKey ==
    IF IsBoardOp(req.op) THEN BoardsKey(req.tenant, DefaultLimit)
    ELSE TodosKey(req.tenant, MutationSteps[3].board, DefaultLimit)

\* C10: a create, update or delete takes its steps in the order store write,
\* invalidation of the first-page key of the affected scope, event emission;
\* a successful one has taken all three; no invalidation and no emission
\* happens without the store write, and no emission without the invalidation.
C10_Order ==
    IsMutation(req.op) =>
        /\ Len(MutationSteps) <= 3
        /\ \A i \in 1..Len(MutationSteps) :
              i <= 3 => MutationSteps[i].step = <<"write", "del", "emit">>[i]
        /\ (Done /\ req.result.kind = "ok") =>
              /\ Len(MutationSteps) = 3
              /\ MutationSteps[2].target = AffectedKey
              /\ MutationSteps[3].event = EventName(req.op)
        /\ (Done /\ req.result.kind # "ok") => MutationSteps = <<>>

\* A todo update that succeeded: written, invalidated, emitted.
C10_Witness ==
    /\ Done
    /\ req.op = "updateTodo"
    /\ req.result.kind = "ok"
    /\ Len(MutationSteps) = 3
    /\ MutationSteps[3].step = "emit"

----------------------------------------------------------------------------
(* Properties of a mutation racing with list requests in flight (SpecRace) *)

\* The last request of the first client is a first-page list of the default
\* size that succeeded.  Every mutation of the run was issued by the same
\* client before it and had emitted its event when the list was called.
ListedAfterEvents == FirstPageListed /\ req.limit = DefaultLimit

\* The items of the last list whose value differs from the value the store
\* holds for the same row.
StaleItems ==
    {i \in 1..Len(req.result.data) :
        \E row \in ListedTable :
            /\ row.id = req.result.data[i].id
            /\ row.val # req.result.data[i].val}

\* C11 as stated: a first-page list issued after a mutation's event was
\* emitted never returns data older than that mutation, however the
\* mutation's write, cache delete and emit interleaved with the cache read,
\* store read and cache write of lists in flight.
C11_AsStated == ListedAfterEvents => StaleItems = {}

\* A board was renamed and the event emitted; the list issued afterwards is
\* answered from a cache entry that a slower list wrote after the delete, and
\* shows the old name.
C11_Witness ==
    /\ ListedAfterEvents
    /\ req.op = "listBoards"
    /\ bg.pc = "done"
    /\ StaleItems # {}
    /\ CacheHas(BoardsKey(req.tenant, DefaultLimit))

----------------------------------------------------------------------------
(* Properties of cache and emit failures (SpecFail) *)

\* The steps of the given kind the last request took.
TraceOf(kind) == SelectSeq(req.trace, LAMBDA e : e.step = kind)

\* The last request is a finished mutation whose store write took place.
WroteAndDone == Done /\ IsMutation(req.op) /\ TraceOf("write") # <<>>

InvalidationFailed ==
    TraceOf("del") # <<>> /\ TraceOf("del")[1].event = "failed"

EmitThrew ==
    TraceOf("emit") # <<>> /\ TraceOf("emit")[1].event = "threw"

\* The store shows the effect of the write of the last request.
WriteInPlace ==
    LET rows == IF IsBoardOp(req.op) THEN boards ELSE todos IN
    IF req.op \in {"deleteBoard", "deleteTodo"}
    THEN \A row \in rows : row.id # req.id
    ELSE \E row \in rows :
            row.id = req.id /\ row.val = req.val /\ row.tenantId = req.tenant

\* C12: a create, update or delete whose store write succeeded returns its
\* normal success result and leaves the write in place even if the cache
\* invalidation failed or the emit threw, and a failed invalidation is still
\* followed by the emit.
C12_BestEffort ==
    WroteAndDone =>
        /\ req.result = IF req.op \in {"deleteBoard", "deleteTodo"} THEN OkDeleted
                        ELSE OkRow(req.id, req.val)
        /\ WriteInPlace
        /\ Len(TraceOf("del")) = 1
        /\ Len(TraceOf("emit")) = 1

\* A todo was deleted while the cache backend was down and the emit threw:
\* the caller still got { deleted: true }.
C12_Witness ==
    /\ WroteAndDone
    /\ req.op = "deleteTodo"
    /\ InvalidationFailed
    /\ EmitThrew
    /\ req.result = OkDeleted

\* The page the store yields for the last list request.
StorePage ==
    IF req.op = "listBoards"
    THEN BoardsPage(boards, req.tenant, req.cursor, req.limit)
    ELSE TodosPage(todos, req.tenant, req.board, req.cursor, req.limit)

CacheReadFailed ==
    TraceOf("cget") # <<>> /\ TraceOf("cget")[1].event = "failed"

CacheWriteFailed ==
    TraceOf("cset") # <<>> /\ TraceOf("cset")[1].event = "failed"

\* C13: a first-page list whose cache read or cache write failed returns the
\* page computed from the store, as it would with an empty cache.
C13_ListSurvivesCache ==
    (/\ Done
     /\ req.op \in {"listBoards", "listTodos"}
     /\ CacheReadFailed \/ CacheWriteFailed)
        => req.result = Ok(StorePage)

\* A list whose cache read failed while the cache held an older page for its
\* key, and whose cache write failed too, returned the current rows.
C13_Witness ==
    /\ Done
    /\ req.op = "listBoards"
    /\ CacheReadFailed
    /\ CacheWriteFailed
    /\ CacheHas(ListKey(req))
    /\ cache[ListKey(req)] # StorePage
    /\ req.result = Ok(StorePage)
    /\ StorePage.data # <<>>

----------------------------------------------------------------------------
(* Properties of the events the services emit (Spec, SpecOverlap) *)

\* The room and identifiers the specification gives for the event of the
\* last request: the tenant-wide room and the board id for a board, the room
\* of (tenant, the todo's board) and the todo id and board id for a todo.
StatedEmit ==
    IF IsBoardOp(req.op)
    THEN Step("emit", req.tenant \o <<":">> \o <<"b","o","a","r","d","s">>,
              EventName(req.op), req.id, Undef)
    ELSE Step("emit", req.tenant \o <<":">> \o BoardOf(req),
              EventName(req.op), req.id, BoardOf(req))

\* C22 as stated: a finished create, update or delete that succeeded made
\* exactly one emit, of the event named after it, carrying the id of the row
\* (and for a todo the id of its board), to the tenant-wide room for a board
\* and to the room of the todo's board for a todo; one that ended in access
\* denied or NotFound made no emit.
C22_AsStated ==
    (Done /\ IsMutation(req.op)) =>
        /\ req.result.kind = "ok" =>
              /\ TraceOf("emit") = <<StatedEmit>>
              /\ \A t \in todos : (~IsBoardOp(req.op) /\ t.id = req.id) =>
                                      t.boardId = StatedEmit.board
        /\ req.result.kind \in {"Forbidden", "NotFound"} => TraceOf("emit") = <<>>

\* An updateTodo has written the row and emitted todo.updated, and then ended
\* in NotFound: a deleteTodo of the second client removed the row before the
\* closing getTodo read it.
C22_Witness ==
    /\ Done /\ req.op = "updateTodo"
    /\ req.result = NotFound(MsgTodo)
    /\ TraceOf("write") # <<>>
    /\ Len(TraceOf("emit")) = 1 /\ TraceOf("emit")[1].event = "todo.updated"
    /\ bg.pc = "done" /\ bg.op = "deleteTodo" /\ bg.result = OkDeleted

----------------------------------------------------------------------------
(* Properties of the first-page cache (Spec) *)

\* The key of the list request's (tenant, resource kind, parent, page size).
StatedKey ==
    IF req.op = "listBoards" THEN BoardsKey(req.tenant, req.limit)
    ELSE TodosKey(req.tenant, req.board, req.limit)

\* The cache after the envelope e was stored under key k and nothing else
\* was touched.
StoredUnder(k, e) ==
    /\ DOMAIN cache' = DOMAIN cache \cup {k}
    /\ cache'[k] = e
    /\ \A j \in DOMAIN cache \ {k} : cache'[j] = cache[j]

\* A step of the list request in flight.
ListStep ==
    /\ req.op \in {"listBoards", "listTodos"}
    /\ InFlight
    /\ req' # req

\* C23: a list call that carries a cursor takes no cache step and leaves the
\* cache as it is, and returns the page queried from the store; a list call
\* without a cursor returns the envelope cached under its key when there is
\* one, and otherwise queries the store, stores that envelope under the key of
\* its (tenant, resource kind, parent, page size) and returns it.
C23_CachePolicy ==
    [][ListStep =>
          IF Truthy(req.cursor)
          THEN /\ cache' = cache
               /\ req'.trace = <<>>
               /\ req.pc \notin {"cget", "cset"}
               /\ req.pc = "query" => req'.pc = "done" /\ req'.result = Ok(StorePage)
          ELSE /\ req.pc = "member" => cache' = cache /\ req'.pc \in {"cget", "done"}
               /\ req.pc = "cget" =>
                     /\ cache' = cache
                     /\ IF StatedKey \in DOMAIN cache
                        THEN req'.pc = "done" /\ req'.result = Ok(cache[StatedKey])
                        ELSE req'.pc = "query"
               /\ req.pc = "query" =>
                     cache' = cache /\ req'.pc = "cset" /\ req'.resp = StorePage
               /\ req.pc = "cset" =>
                     /\ StoredUnder(StatedKey, req.resp)
                     /\ req'.pc = "done" /\ req'.result = Ok(req.resp)]_vars

\* A list with a cursor has returned the rows after the cursor without a
\* cache step, while the first page of the same scope and size sits in the
\* cache with other rows.
C23_Witness ==
    /\ Done
    /\ req.op \in {"listBoards", "listTodos"}
    /\ Truthy(req.cursor)
    /\ req.trace = <<>>
    /\ req.result.data # <<>>
    /\ StatedKey \in DOMAIN cache
    /\ cache[StatedKey].data # req.result.data

----------------------------------------------------------------------------
(* Properties of the membership check of the services (SpecMember) *)

\* The membership check of the request in flight runs while no membership
\* row (user, tenant) exists.
CheckedAsNonMember ==
    /\ req.pc \in {"member", "member2"}
    /\ req' # req
    /\ <<req.user, req.tenant>> \notin MemberKeys

\* C24: every operation starts with the membership check, before any cache or
\* store access of its own; a check that finds no membership row ends the
\* call in access denied, with no cache step and with the store and the cache
\* untouched, also when the first page is in the cache from the time the user
\* was a member.
C24_MemberFirst ==
    /\ [](req.pc = "member" => req.trace = <<>>)
    /\ [][(req.pc \in {"idle", "done"} /\ req'.pc \notin {"idle", "done"}) =>
              req'.pc = "member"]_vars
    /\ [][CheckedAsNonMember =>
              /\ req'.pc = "done"
              /\ req'.result = Forbidden
              /\ req'.trace = req.trace
              /\ UNCHANGED <<boards, todos, cache>>]_vars

\* A user who was a member when a first page was cached and whose membership
\* row is gone has called the list again and was refused, with no cache step,
\* while the page is still in the cache.
C24_Witness ==
    /\ Done
    /\ req.op \in {"listBoards", "listTodos"}
    /\ <<req.user, req.tenant>> \notin MemberKeys
    /\ <<req.user, req.tenant>> \in everMember
    /\ req.result = Forbidden
    /\ req.trace = <<>>
    /\ StatedKey \in DOMAIN cache
    /\ cache[StatedKey].data # <<>>

----------------------------------------------------------------------------
(* Properties of the rows of the store (Spec) *)

\* Every todo's boardId is the id of a board of the todo's tenant.
TodosHaveBoards ==
    \A t \in todos : \E b \in boards : b.id = t.boardId /\ b.tenantId = t.tenantId

\* The board check of a createTodo finds no board with the given id in the
\* given tenant.
CreateTodoMissesBoard ==
    /\ req.op = "createTodo"
    /\ req.pc = "find"
    /\ req' # req
    /\ ~\E b \in boards : b.id = req.board /\ b.tenantId = req.tenant

\* C25: a createTodo whose board check finds no board (id, tenant) ends in
\* NotFound with nothing inserted, invalidated or emitted; a todo is inserted
\* only by a createTodo that passed that check; and with requests that do not
\* overlap every todo's boardId names an existing board of the todo's tenant.
C25_TodoHasBoard ==
    /\ []TodosHaveBoards
    /\ [][CreateTodoMissesBoard =>
              /\ req'.pc = "done"
              /\ req'.result = NotFound(MsgBoard)
              /\ req'.trace = <<>>
              /\ UNCHANGED <<boards, todos, cache>>]_vars
    /\ [][(\E t \in todos' : \A o \in todos : o.id # t.id) =>
              req.op = "createTodo" /\ req.pc = "write"]_vars

\* A member of one tenant asked for a todo on a board that exists in another
\* tenant: NotFound, nothing done, and the todos that exist sit on boards of
\* their own tenant.
C25_Witness ==
    /\ Done
    /\ req.op = "createTodo"
    /\ CallerIsMember
    /\ req.result = NotFound(MsgBoard)
    /\ req.trace = <<>>
    /\ \E b \in boards : b.id = req.board /\ b.tenantId # req.tenant
    /\ todos # {}

----------------------------------------------------------------------------
(* Properties of todo assignees (SpecAssign) *)

\* C26 as stated: every todo with an assignee names a user who was a member of
\* the todo's tenant when assigned (memberships do not change in these runs),
\* and a createTodo or updateTodo naming another user as assignee is rejected.
C26_AsStated ==
    /\ \A t \in todos :
          t.assignee # NullAssignee => <<t.assignee, t.tenantId>> \in MemberKeys
    /\ (/\ Done
        /\ req.op \in {"createTodo", "updateTodo"}
        /\ req.assignee \in Users
        /\ <<req.assignee, req.tenant>> \notin MemberKeys) => req.result.kind # "ok"

\* A createTodo of a member of tenant p naming as assignee a user with no
\* membership in p has succeeded and the row carries that assignee.
C26_Witness ==
    /\ Done
    /\ req.op = "createTodo"
    /\ req.result.kind = "ok"
    /\ <<req.assignee, req.tenant>> \notin MemberKeys
    /\ \E t \in todos : /\ t.id = req.id
                        /\ t.tenantId = req.tenant
                        /\ t.assignee = req.assignee
                        /\ <<t.assignee, t.tenantId>> \notin everMember

----------------------------------------------------------------------------
(* Properties of TenantsService.deleteTenant *)

DeleteTenantStep == acct'.n # acct.n /\ acct'.op = "deleteTenant"

\* C27: deleteTenant(U, T) by a member U of T removes the tenant row of T with
\* every board, todo and membership of T and no row of another tenant (and no
\* user); by a user who is not a member of T it is refused as Forbidden and
\* removes nothing.
C27_DeleteTenant ==
    [][DeleteTenantStep =>
         IF <<acct'.user, acct'.tenant>> \in MemberKeys
         THEN /\ acct'.kind = "ok"
              /\ tenantRows' = {t \in tenantRows : t.id # acct'.tenant}
              /\ memberships' = {m \in memberships : m.tenantId # acct'.tenant}
              /\ boards' = {b \in boards : b.tenantId # acct'.tenant}
              /\ todos' = {t \in todos : t.tenantId # acct'.tenant}
              /\ userRows' = userRows
         ELSE /\ acct'.kind = "Forbidden"
              /\ UNCHANGED <<tenantRows, memberships, boards, todos, userRows>>]_vars

\* Tenant p was deleted by its member while tenant q kept its rows.
C27_Witness ==
    /\ acct.op = "deleteTenant" /\ acct.kind = "ok" /\ acct.tenant = TenantP
    /\ TenantP \notin {t.id : t \in tenantRows}
    /\ ~\E b \in boards : b.tenantId = TenantP
    /\ ~\E t \in todos : t.tenantId = TenantP
    /\ ~\E m \in memberships : m.tenantId = TenantP
    /\ \E b \in boards : b.tenantId = TenantQ
    /\ \E t \in todos : t.tenantId = TenantQ
    /\ \E m \in memberships : m.tenantId = TenantQ

----------------------------------------------------------------------------
(* Properties of the membership rows *)

OneRowPerKey ==
    \A m1, m2 \in memberships :
        (m1.userId = m2.userId /\ m1.tenantId = m2.tenantId) => m1 = m2

AddMemberStep == acct'.n # acct.n /\ acct'.op = "addMember"

KnownEmail(email) == \E u \in userRows : u.email = email

\* C28: there is never more than one membership row per (userId, tenantId);
\* adding by email a user who is already a member leaves the membership rows
\* as they are, a successful addition leaves the user with a row, so that a
\* second addition changes nothing, and adding an email no user has fails with
\* NotFound and changes no row.
C28_AddIdempotent ==
    /\ []OneRowPerKey
    /\ [][AddMemberStep =>
            /\ (\E u \in userRows : /\ u.email = acct'.email
                                     /\ <<u.id, acct'.tenant>> \in MemberKeys)
                 => (acct'.kind = "ok" /\ memberships' = memberships)
            /\ acct'.kind = "ok" =>
                 /\ <<acct'.user, acct'.tenant>> \in KeysOf(memberships')
                 /\ \A m \in memberships' \ memberships :
                        m = [userId |-> acct'.user, tenantId |-> acct'.tenant,
                             role |-> "member"]
                 /\ memberships \subseteq memberships'
            /\ ~KnownEmail(acct'.email) =>
                 /\ acct'.kind = "NotFound"
                 /\ UNCHANGED <<memberships, tenantRows, userRows, boards, todos>>
            /\ UNCHANGED <<tenantRows, userRows, boards, todos>>]_vars

\* The user whose membership row says admin was added again and the row still
\* says admin.
C28_Witness ==
    /\ acct.op = "addMember" /\ acct.kind = "ok"
    /\ acct.user = "u1" /\ acct.tenant = TenantP
    /\ {m \in memberships : m.userId = "u1" /\ m.tenantId = TenantP} =
         {[userId |-> "u1", tenantId |-> TenantP, role |-> "admin"]}

----------------------------------------------------------------------------
(* Properties of AuthService.signup *)

SignupStep == acct'.n # acct.n /\ acct'.op = "signup"

\* C29: a signup either succeeds and adds exactly one user row (with the
\* normalised email), one tenant row and the one membership row joining them,
\* the new user being a member of that new tenant only, or fails with a
\* Conflict and leaves users, tenants and memberships as they were; it fails
\* exactly when the normalised email is already a user's.
C29_AllOrNothing ==
    [][SignupStep =>
         /\ acct'.kind \in {"ok", "Conflict"}
         /\ acct'.kind = "Conflict" <=> KnownEmail(normalizeEmail(acct'.email))
         /\ acct'.kind = "Conflict" => UNCHANGED <<userRows, tenantRows, memberships>>
         /\ acct'.kind = "ok" =>
              \E u \in userRows' \ userRows, t \in tenantRows' \ tenantRows :
                  /\ userRows' = userRows \cup {u}
                  /\ tenantRows' = tenantRows \cup {t}
                  /\ u.id = acct'.user
                  /\ u.email = normalizeEmail(acct'.email)
                  /\ u.id \notin {x.id : x \in userRows}
                  /\ t.id \notin {x.id : x \in tenantRows}
                  /\ memberships' \ memberships =
                       {[userId |-> u.id, tenantId |-> t.id, role |-> "member"]}
                  /\ memberships \subseteq memberships'
                  /\ {m.tenantId : m \in {x \in memberships' : x.userId = u.id}} = {t.id}
                  /\ {m.userId : m \in {x \in memberships' : x.tenantId = t.id}} = {u.id}
         /\ UNCHANGED <<boards, todos>>]_vars

\* The signup of "C " succeeded: user c exists and is a member of exactly the
\* tenant created with it.
C29_Witness ==
    /\ acct.op = "signup" /\ acct.kind = "ok" /\ acct.email = <<"C", " ">>
    /\ \E u \in userRows : u.id = acct.user /\ u.email = <<"c">>
    /\ \E t \in tenantRows : t.id = acct.tenant /\ t.name = <<"c">> \o LitWorkspace
    /\ {m.tenantId : m \in {x \in memberships : x.userId = acct.user}} = {acct.tenant}

----------------------------------------------------------------------------
(* Properties of the parent columns of boards and todos (SpecPatch) *)

\* The rows of a table before and after a step that share an id agree on the
\* given column.
Keeps(before, after, col) ==
    \A x \in before, y \in after : x.id = y.id => x[col] = y[col]

WriteOf(op) == req.pc = "write" /\ req.op = op

\* C30: no step changes the tenantId of an existing board or the tenantId or
\* boardId of an existing todo; the write of updateBoard leaves every board
\* as it was except for the name of the board it names, and the write of
\* updateTodo leaves every todo as it was except for the title, description,
\* status and assignee of the todo it names.
C30_ParentsFixed ==
    [][/\ Keeps(boards, boards', "tenantId")
       /\ Keeps(todos, todos', "tenantId")
       /\ Keeps(todos, todos', "boardId")
       /\ WriteOf("updateBoard") =>
            /\ {b.id : b \in boards'} = {b.id : b \in boards}
            /\ \A b \in boards : b.id # req.id => b \in boards'
            /\ todos' = todos
       /\ WriteOf("updateTodo") =>
            /\ {t.id : t \in todos'} = {t.id : t \in todos}
            /\ \A t \in todos : t.id # req.id => t \in todos'
            /\ boards' = boards]_vars

\* An updateTodo whose patch carried description, status and assignee besides
\* the title has been applied, and the row still sits on its board.
C30_Witness ==
    /\ req.op = "updateTodo" /\ req.pc = "done" /\ req.result.kind = "ok"
    /\ req.patch.description # Absent /\ req.patch.status # Absent
    /\ \E t \in todos : /\ t.id = req.id
                        /\ t.val = "n2" /\ t.description = "d2" /\ t.status = "DONE"
                        /\ t.assignee = "u1"
                        /\ t.tenantId = req.tenant /\ t.boardId = BoardId(1)


----------------------------------------------------------------------------
(* Properties of updates and deletes that miss their target (Spec) *)

\* The update or delete in flight has written nothing and no row of the
\* tenant it names carries the id it names.
MissesTarget ==
    /\ UpdateOrDelete
    /\ InFlight
    /\ req.trace = <<>>
    /\ \A row \in (IF IsBoardOp(req.op) THEN boards ELSE todos) :
          row.id = req.id => row.tenantId # req.tenant

----------------------------------------------------------------------------
(* Properties of the entries a first-page list is served (Spec) *)

\* The list in flight reads the cache and finds an entry under its key.
CacheHit ==
    /\ req.pc = "cget"
    /\ req'.pc = "done"
    /\ req'.result.kind = "ok"

\* C32: every cache entry was stored by a list whose tenant, resource kind,
\* parent board and page size are recorded with it, and a first-page list
\* that is answered from the cache is answered with an entry stored by a
\* list for its own tenant, kind, board and page size.
C32_OwnEntryServed ==
    /\ [](DOMAIN storedBy = DOMAIN cache)
    /\ [][CacheHit =>
            \E k \in DOMAIN cache :
                /\ req'.result = Ok(cache[k])
                /\ storedBy[k] = ListParams(req)
                /\ \A j \in DOMAIN cache :
                      storedBy[j] # ListParams(req) => ListKey(req) # j]_vars

\* A list of the todos of board b1 under tenant q was answered from the cache
\* while the cache also held the first page of b1's todos under tenant p.
C32_Witness ==
    /\ Done
    /\ req.op = "listTodos" /\ req.tenant = TenantQ /\ req.board = BoardId(1)
    /\ Len(req.trace) = 1 /\ req.trace[1].step = "cget"
    /\ req.result.kind = "ok"
    /\ \E k \in DOMAIN storedBy :
          /\ storedBy[k].tenant = TenantP
          /\ storedBy[k].op = "listTodos"
          /\ storedBy[k].board = BoardId(1)
          /\ storedBy[k].limit = req.limit
          /\ cache[k].data # <<>>


----------------------------------------------------------------------------
(* Properties of the tenant handed to the services (SpecRoute) *)

\* The last request passed both guards and its path parameter passed the pipe.
Served == guard.via = "handler" /\ guard.handed # Undef

\* C33: a handler that runs behind the guards hands its service the tenant
\* the guard bound, for which the guard found the caller's membership row, and
\* the service call carries that tenant and that caller; a request a guard
\* or the pipe rejects makes no service call; and the handler's choice, taken
\* on its own, is the bound value when there is one, else the trimmed header
\* when there is one, else the path parameter.
C33_HandedIsBound ==
    /\ [](/\ Served =>
               /\ guard.res.outcome = "ok"
               /\ guard.handed = guard.res.activeTenantId
               /\ guard.handed = HeaderTenant(guard.header)
               /\ <<guard.user, guard.handed>> \in guard.store
               /\ req.op # "none" /\ req.tenant = guard.handed /\ req.user = guard.user
          /\ guard.via = "decorator" =>
               guard.handed =
                  IF Truthy(guard.res.activeTenantId) THEN guard.res.activeTenantId
                  ELSE IF Truthy(guard.header) THEN Trim(guard.header)
                  ELSE guard.param)
    /\ [][(guard'.via = "handler" /\ guard' # guard /\ guard'.handed = Undef)
            => req' = req]_vars

\* A member sent a padded tenant header with the matching path parameter; the
\* service was called with the trimmed tenant and has answered.
C33_Witness ==
    /\ Served
    /\ guard.header = <<" ", "p", " ">>
    /\ guard.param = TenantP
    /\ guard.handed = TenantP
    /\ req.tenant = TenantP
    /\ Done /\ req.result.kind = "ok"


----------------------------------------------------------------------------
(* Properties of listTodos after deleteBoard (Spec) *)

\* The board the last request names was created and its row is gone.
BoardWasDeleted ==
    /\ \E n \in 1..nextBoard : req.board = BoardId(n)
    /\ ~\E b \in boards : b.id = req.board

\* C34 as stated: a listTodos that completes after the deleteBoard of its
\* board has completed returns no todo.
C34_AsStated ==
    (Done /\ req.op = "listTodos" /\ req.result.kind = "ok" /\ BoardWasDeleted)
        => req.result.data = <<>>

\* A first-page listTodos of a deleted board was answered from the cache with
\* a todo, although the store holds no todo of that board any more.
C34_Witness ==
    /\ Done /\ req.op = "listTodos" /\ req.result.kind = "ok"
    /\ BoardWasDeleted
    /\ req.result.data # <<>>
    /\ Len(req.trace) = 1 /\ req.trace[1].step = "cget"
    /\ ~\E t \in todos : t.boardId = req.board
    /\ CallerIsMember


----------------------------------------------------------------------------
(* Properties of updateTodo's NotFound (SpecOverlap) *)

\* C35 as stated: an updateTodo that ends in NotFound has taken no write, no
\* cache invalidation and no emit, also beside a concurrent deleteTodo of the
\* same todo.
C35_AsStated ==
    (Done /\ req.op = "updateTodo" /\ req.result.kind = "NotFound")
        => MutationSteps = <<>>

\* An updateTodo answered NotFound after it had patched the row, invalidated
\* the first page of the todo's board and emitted todo.updated; the concurrent
\* deleteTodo had found the row before and removed it after the patch.
C35_Witness ==
    /\ Done /\ req.op = "updateTodo" /\ req.result = NotFound(MsgTodo)
    /\ Len(MutationSteps) = 3
    /\ MutationSteps[1].step = "write"
    /\ MutationSteps[2].step = "del"
    /\ MutationSteps[3].event = "todo.updated"
    /\ bg.op = "deleteTodo" /\ bg.id = req.id
    /\ TraceOf("write") # <<>>
    /\ ~\E t \in todos : t.id = req.id


(***************************************************************************)
(* Two deletes of one row.  boards.service.ts deleteBoard and              *)
(* todos.service.ts deleteTodo run as `req` beside the same delete as      *)
(* `bg`, every await being a point where the other request may run.        *)
(***************************************************************************)
DeletesNext ==
    \/ RaceCallCreate
    \/ RaceCallDelete
    \/ StepMember
    \/ StepFind
    \/ StepWrite
    \/ StepInvalidate
    \/ StepEmit
    \/ BgCallDelete
    \/ BgMember
    \/ BgFind
    \/ BgWrite
    \/ BgInvalidate
    \/ BgEmit

SpecDeletes == Init /\ [][DeletesNext]_vars

DeleteOps == {"deleteBoard", "deleteTodo"}

SameDelete ==
    /\ req.op \in DeleteOps
    /\ bg.op = req.op /\ bg.id = req.id /\ bg.tenant = req.tenant

StepsIn(r, kinds) == SelectSeq(r.trace, LAMBDA e : e.step \in kinds)

DeletedEvents(r) ==
    SelectSeq(r.trace, LAMBDA e : e.step = "emit" /\ e.event = EventName(r.op)
                                                 /\ e.id = r.id)

DeleteSucceeded(r) ==
    /\ r.pc = "done" /\ r.result = OkDeleted
    /\ Len(StepsIn(r, {"write"})) = 1
    /\ Len(DeletedEvents(r)) = 1
    /\ Len(StepsIn(r, {"emit"})) = 1

DeleteMissed(r) ==
    /\ r.pc = "done" /\ r.result.kind = "NotFound"
    /\ StepsIn(r, {"write", "del", "emit"}) = <<>>

OnJoinBoard(c, data) ==
    /\ conns[c].live
    /\ conns[c].pc \in {"verifying", "open"}
    /\ rooms' = IF conns[c].pc = "open" /\ CleanBoardId(data) # <<>>
                THEN RoomsAdd(c, BoardRoom(RoomTenant(conns[c]), CleanBoardId(data)))
                ELSE rooms
    /\ conns' = [conns EXCEPT ![c].asked =
                    IF CleanBoardId(data) # <<>> THEN @ \cup {CleanBoardId(data)} ELSE @]
    /\ UNCHANGED <<serverReady, events, inbox>>
    /\ UNCHANGED <<memberships, everMember, acctVars, web, guardVars, pageVars, svcVars>>

JoinNext ==
    \/ AfterInit
    \/ \E c \in RtConns, k \in TokenInputs : Connect(c, k, RaceTenant)
    \/ \E c \in RtConns : VerifyDone(c)
    \/ \E c \in RtConns, d \in JoinInputs : OnJoinBoard(c, d)
    \/ \E c \in RtConns : Disconnect(c)

SpecJoin == RtInit /\ [][JoinNext]_vars

HandshakeSucceeded(c) == conns[c].pc = "open" /\ conns[c].live

\* C37: on a live connection whose handshake succeeded, every valid
\* join_board the server received, before or after the verification
\* settled, has put the connection in room tenantId:boardId.
C37_AsStated ==
    \A c \in RtConns :
        HandshakeSucceeded(c) =>
            \A b \in conns[c].asked : c \in InRoom(BoardRoom(conns[c].tenantId, b))

\* The case that works: the message arrived on the open connection.
C37_Witness ==
    \E c \in RtConns :
        /\ HandshakeSucceeded(c)
        /\ conns[c].asked = {BoardId(1)}
        /\ c \in InRoom(BoardRoom(RaceTenant, BoardId(1)))


(***************************************************************************)
(* Room names per scope.  part_005 resolves `${tenantId}:boards` for a     *)
(* tenant and `${tenantId}:${boardId}` for a board; the join_board and     *)
(* leave_board handlers of realtime.gateway.ts accept every boardId that   *)
(* is not blank after trimming.                                            *)
(***************************************************************************)
RoomsNext ==
    \/ AfterInit
    \/ \E c \in RtConns, t \in {TenantP, TenantQ} : Connect(c, RaceUser, t)
    \/ \E c \in RtConns : VerifyDone(c)
    \/ \E c \in RtConns, d \in JoinInputs : JoinBoard(c, d)
    \/ \E c \in RtConns, d \in JoinInputs : LeaveBoard(c, d)
    \/ \E t \in TenantIds : EmitToBoard(t, BoardId(1))
    \/ \E t \in TenantIds : EmitToTenant(t)

SpecRooms == RtInit /\ [][RoomsNext]_vars

\* boardIds the handlers accept: String(data?.boardId || '').trim() not empty
AcceptedBoards == {CleanBoardId(d) : d \in JoinInputs} \ {<<>>}

ScopeOfTenant(t) == [tenant |-> t, board |-> Undef]
ScopeOfBoard(t, b) == [tenant |-> t, board |-> b]

RoomScopes ==
    {ScopeOfTenant(t) : t \in TenantIds} \cup
    {ScopeOfBoard(t, b) : t \in TenantIds, b \in AcceptedBoards}

ScopeRoom(s) ==
    IF s.board = Undef THEN TenantRoom(s.tenant) ELSE BoardRoom(s.tenant, s.board)

ScopesNamed(room) == {s \in RoomScopes : ScopeRoom(s) = room}

\* C38: every room name in use stands for one scope only, and a join_board
\* or leave_board of an open connection changes its membership of no room
\* other than the room of the board the message names.
C38_AsStated ==
    /\ [](\A r \in DOMAIN rooms : Cardinality(ScopesNamed(r)) <= 1)
    /\ [][\A c \in RtConns, d \in JoinInputs :
            (conns[c].pc = "open" /\ (JoinBoard(c, d) \/ LeaveBoard(c, d))) =>
                \A s \in RoomScopes :
                    s # ScopeOfBoard(RoomTenant(conns[c]), CleanBoardId(d)) =>
                        ((c \in InRoom(ScopeRoom(s)))' = (c \in InRoom(ScopeRoom(s))))]_vars

\* The case that works: a connection in its tenant-wide room and in the room
\* of board b1, two names with one scope each.
C38_Witness ==
    \E c \in RtConns :
        /\ conns[c].pc = "open" /\ conns[c].live
        /\ RoomsOf(c) = {TenantRoom(TenantP), BoardRoom(TenantP, BoardId(1))}
        /\ ScopesNamed(BoardRoom(TenantP, BoardId(1))) = {ScopeOfBoard(TenantP, BoardId(1))}


(***************************************************************************)
(* The web client's socket.  App.tsx creates one socket per tenant in the  *)
(* effect on [token, tenantId]; socket.ts builds it with reconnection:     *)
(* true, so after a transport loss the same socket object, with the same   *)
(* listeners, connects again as a new server-side socket.                  *)
(***************************************************************************)
WebKeeps == UNCHANGED <<memberships, everMember, acctVars, guardVars, pageVars, svcVars,
                        rtVars>>

\* useEffect(() => { ... const s = connectSocket(token, tenantId);
\* s.on('connect', () => { if (boardId) s.emit('join_board', { boardId }) })
\* ... }, [token, tenantId]): the callback closes over the boardId of the
\* render in which the effect ran.
WebSocketEffect ==
    /\ web.sock = "none"
    /\ web' = [web EXCEPT !.sock = "connecting", !.conn = 1, !.captured = web.boardId]
    /\ WebKeeps

\* The handshake of the client's current connection reaching the gateway.
WebHandshake ==
    /\ web.sock = "connecting"
    /\ Connect(web.conn, RaceUser, RaceTenant)

\* The 'connect' callbacks: the one of the effect, then the pending
\* s.once('connect', ...) of openBoard.
WebOnConnect ==
    /\ web.sock = "connecting"
    /\ conns[web.conn].live
    /\ LET emitted == (IF web.captured # <<>> THEN {web.captured} ELSE {}) \cup web.once
       IN  web' = [web EXCEPT !.sock = "connected", !.once = {},
                              !.outbox = @ \cup emitted, !.sent = @ \cup emitted]
    /\ WebKeeps

\* Todo ids of a board as GET .../boards/:id/todos lists them, newest first.
RECURSIVE TodoIdsDesc(_, _, _)
TodoIdsDesc(tenantId, boardId, n) ==
    IF n = 0 THEN <<>>
    ELSE (IF \E t \in todos : t.id = TodoId(n) /\ t.tenantId = tenantId
                                               /\ t.boardId = boardId
          THEN <<TodoId(n)>> ELSE <<>>) \o TodoIdsDesc(tenantId, boardId, n - 1)

\* openBoard(id) up to its await: boardIdRef.current = id; setBoardId(id)
WebOpenBoard(id) ==
    /\ web.sock # "none"
    /\ web.opening = <<>>
    /\ web' = [web EXCEPT !.boardId = id, !.opening = id]
    /\ WebKeeps

\* openBoard(id) after the GET: setTodos(res.data); then join_board now if
\* s.connected, else from a one-shot 'connect' callback.
WebOpenBoardLoaded ==
    /\ web.opening # <<>>
    /\ web' = [web EXCEPT
                 !.opening = <<>>,
                 !.todos = TodoIdsDesc(RaceTenant, web.opening, nextTodo),
                 !.outbox = IF web.sock = "connected" THEN @ \cup {web.opening} ELSE @,
                 !.sent = IF web.sock = "connected" THEN @ \cup {web.opening} ELSE @,
                 !.once = IF web.sock = "connected" THEN @ ELSE @ \cup {web.opening}]
    /\ WebKeeps

\* A join_board packet of the client reaching its server-side socket: the
\* listener of handleConnection runs if it is registered already.
WebDeliverJoin(data) ==
    /\ data \in web.outbox
    /\ conns[web.conn].live
    /\ rooms' = IF conns[web.conn].pc = "open" /\ CleanBoardId(data) # <<>>
                THEN RoomsAdd(web.conn,
                              BoardRoom(RoomTenant(conns[web.conn]), CleanBoardId(data)))
                ELSE rooms
    /\ web' = [web EXCEPT !.outbox = @ \ {data}]
    /\ UNCHANGED <<serverReady, conns, events, inbox>>
    /\ UNCHANGED <<memberships, everMember, acctVars, guardVars, pageVars, svcVars>>

\* The transport of the current connection is lost.
WebTransportLost ==
    /\ web.sock = "connected"
    /\ Disconnect(web.conn)

\* The client's 'disconnect' event; packets still on their way are lost.
WebOnDisconnect ==
    /\ web.sock = "connected"
    /\ ~conns[web.conn].live
    /\ web' = [web EXCEPT !.sock = "down", !.outbox = {}]
    /\ WebKeeps

\* reconnection: true: the socket opens a new connection by itself.
WebReconnect ==
    /\ web.sock = "down"
    /\ web.conn < MaxConns
    /\ web' = [web EXCEPT !.sock = "connecting", !.conn = @ + 1, !.sent = {}]
    /\ WebKeeps

OpenInputs == {BoardId(1), BoardId(2)}

ReconnectNext ==
    \/ AfterInit
    \/ WebSocketEffect
    \/ WebHandshake
    \/ \E c \in RtConns : VerifyDone(c)
    \/ WebOnConnect
    \/ \E id \in OpenInputs : WebOpenBoard(id)
    \/ WebOpenBoardLoaded
    \/ \E id \in OpenInputs : WebDeliverJoin(id)
    \/ WebTransportLost
    \/ WebOnDisconnect
    \/ WebReconnect

SpecReconnect == RtInit /\ [][ReconnectNext]_vars

\* The socket is connected again after a loss, a board is open and no
\* openBoard is under way.
ReconnectedOnBoard ==
    /\ web.sock = "connected" /\ web.conn > 1
    /\ web.boardId # <<>> /\ web.opening = <<>>

\* C39: once the socket has reconnected with a board open, the client has
\* emitted join_board for that board on the new connection, and when the
\* server has handled everything the client sent, the new connection is in
\* the board's room.
C39_AsStated ==
    ReconnectedOnBoard =>
        /\ web.boardId \in web.sent
        /\ (web.outbox = {} /\ conns[web.conn].pc = "open" /\ conns[web.conn].live)
              => web.conn \in InRoom(BoardRoom(RaceTenant, web.boardId))

\* The case that works: the board was opened while the socket was down, so
\* the one-shot 'connect' callback of openBoard joined it on reconnect.
C39_Witness ==
    /\ ReconnectedOnBoard
    /\ web.boardId \in web.sent
    /\ web.outbox = {}
    /\ conns[web.conn].pc = "open" /\ conns[web.conn].live
    /\ web.conn \in InRoom(BoardRoom(RaceTenant, web.boardId))


(***************************************************************************)
(* The web client's lists.  createBoard / createTodo of App.tsx apply the  *)
(* HTTP response, the board.created / todo.created listeners apply the     *)
(* event; the service emits before it returns, and the two travel on       *)
(* different channels, so the client may see them in either order.         *)
(***************************************************************************)
AddOnceMut(list, id) == <<id>> \o list

\* setBoards / setTodos((prev) => prev.some(x => x.id === id) ? prev : [item, ...prev])
AddOnce(list, id) ==
    IF \E i \in 1..Len(list) : list[i] = id THEN list ELSE <<id>> \o list

\* No create of this client is waiting for its response.
Answered == ~InFlight /\ web.answered = calls

\* createBoard up to its await: api.post(`/v1/tenants/${tenantId}/boards`, { name })
WebCreateBoard ==
    /\ web.sock # "none"
    /\ Answered /\ web.opening = <<>>
    /\ nextBoard < MaxBoards
    /\ Call("createBoard", RaceUser, RaceTenant, Undef, Undef, "n1", DefaultLimit, Undef)

\* createTodo up to its await: if (!tenantId || !boardId || ...) return;
\* api.post(`.../boards/${boardId}/todos`, { title })
WebCreateTodo ==
    /\ web.boardId # <<>>
    /\ Answered /\ web.opening = <<>>
    /\ nextTodo < MaxTodos
    /\ Call("createTodo", RaceUser, RaceTenant, Undef, web.boardId, "n1", DefaultLimit,
            Undef)

\* createBoard / createTodo after the await: the created row goes into the
\* list unless its id is there; a rejected request only sets the error.
WebOnCreateResponse ==
    /\ req.pc = "done" /\ web.answered < calls
    /\ web' = [web EXCEPT
                 !.answered = calls,
                 !.boards = IF req.op = "createBoard" /\ req.result.kind = "ok"
                            THEN AddOnce(@, req.id) ELSE @,
                 !.todos = IF req.op = "createTodo" /\ req.result.kind = "ok"
                           THEN AddOnce(@, req.id) ELSE @]
    /\ WebKeeps

\* Ids for which the service has called emitToTenant(..., 'board.created', ...)
BoardEvents ==
    {BoardId(n) : n \in 1..nextBoard} \
        (IF req.op = "createBoard" /\ InFlight THEN {req.id} ELSE {})

\* Ids for which the service has called emitToBoard(..., 'todo.created', ...)
TodoEvents ==
    {TodoId(n) : n \in 1..nextTodo} \
        (IF req.op = "createTodo" /\ InFlight THEN {req.id} ELSE {})

\* s.on('board.created', (b) => setBoards(...))
WebOnBoardCreated(id) ==
    /\ web.sock = "connected"
    /\ id \in BoardEvents \ web.handled
    /\ web' = [web EXCEPT !.handled = @ \cup {id}, !.boards = AddOnce(@, id)]
    /\ WebKeeps

\* payload.boardId of the todo.created event of a todo
PayloadBoard(id) == (CHOOSE t \in todos : t.id = id).boardId

\* s.on('todo.created', (payload) => { if (payload.boardId &&
\* payload.boardId === boardIdRef.current) setTodos(...) })
WebOnTodoCreated(id) ==
    /\ web.sock = "connected"
    /\ id \in TodoEvents \ web.handled
    /\ web' = [web EXCEPT !.handled = @ \cup {id},
                          !.todos = IF PayloadBoard(id) = web.boardId
                                    THEN AddOnce(@, id) ELSE @]
    /\ WebKeeps

Shown(list) == {list[i] : i \in 1..Len(list)}

\* A board is opened from the list on screen, and not while a create of
\* this client is waiting for its response.
WebClickBoard ==
    /\ Answered
    /\ \E id \in Shown(web.boards) : WebOpenBoard(id)

ListsNext ==
    \/ AfterInit
    \/ WebSocketEffect
    \/ WebHandshake
    \/ \E c \in RtConns : VerifyDone(c)
    \/ WebOnConnect
    \/ WebClickBoard
    \/ WebOpenBoardLoaded
    \/ \E id \in Shown(web.boards) : WebDeliverJoin(id)
    \/ WebCreateBoard
    \/ WebCreateTodo
    \/ StepMember
    \/ StepFind
    \/ StepWrite
    \/ StepInvalidate
    \/ StepEmit
    \/ WebOnCreateResponse
    \/ \E n \in 1..MaxBoards : WebOnBoardCreated(BoardId(n))
    \/ \E n \in 1..MaxTodos : WebOnTodoCreated(TodoId(n))

SpecLists == Init /\ [][ListsNext]_vars

Times(list, id) == Cardinality({i \in 1..Len(list) : list[i] = id})

\* The last create of this client succeeded and its response, its event, or
\* both have been applied.
BoardArrived ==
    /\ req.op = "createBoard" /\ req.pc = "done" /\ req.result.kind = "ok"
    /\ (web.answered = calls \/ req.id \in web.handled)

TodoArrived ==
    /\ req.op = "createTodo" /\ req.pc = "done" /\ req.result.kind = "ok"
    /\ web.boardId = req.board /\ web.opening = <<>>
    /\ (web.answered = calls \/ req.id \in web.handled)

====
